---- MODULE Spec2Model ----
(***************************************************************************)
(* Model of the consultas_app_cliente backend (FastAPI over BigQuery).     *)
(*                                                                         *)
(*   Spec          POST /api/encuestas/{id}/responder, several calls in    *)
(*                 flight, one data-store round trip per step              *)
(*   SpecLectura   GET /api/encuestas/{id}/respuestas over the survey      *)
(*                 tables the program can be in                            *)
(*   SpecAlcance   the endpoints that return rows of installations, over   *)
(*                 the grants of usuario_instalaciones                     *)
(*   SpecAuth      verify_firebase_token, the capability gates and the     *)
(*                 handlers behind them, one request after another         *)
(*                                                                         *)
(* Tables are sets of rows or functions keyed by the primary key; a        *)
(* handler is one action per data-store round trip, the Python code        *)
(* between two round trips runs inside the action of the later one.        *)
(***************************************************************************)
EXTENDS Integers, Sequences, FiniteSets, TLC

\* ------------------------------------------------------------------ bounds
\* Call slots of responder_encuesta.
MaxCalls == 2
\* Last instant of the clock (datetime.now / CURRENT_TIMESTAMP), 0..MaxTime.
MaxTime == 2
\* fecha_limite of the surveys of the data set.
FechaLimite == 1
\* Requests the authentication part receives, one after another.
MaxRequests == 2

\* ------------------------------------------------------------- data set
\* SQL NULL / Python None in a timestamp column.
SinFecha == -1
\* SQL NULL / Python None in a string column.
Nulo == "NULL"

\* user_data as verify_firebase_token returns it (email, nombre_completo,
\* rol_id), keyed by email.
Principals ==
    [ e \in {"ana@cli", "beto@cli", "sup@wfsa", "adm@wfsa", "sub@wfsa", "jefe@wfsa"} |->
        [ email |-> e,
          nombre_completo |->
            CASE e = "ana@cli" -> "Ana"
              [] e = "beto@cli" -> "Beto"
              [] e = "sup@wfsa" -> "Sup"
              [] e = "adm@wfsa" -> "Adm"
              [] e = "sub@wfsa" -> "Sub"
              [] OTHER -> "Jefe",
          rol_id |->
            CASE e = "ana@cli" -> "CLIENTE"
              [] e = "beto@cli" -> "CLIENTE"
              [] e = "sup@wfsa" -> "SUPERVISOR_WFSA"
              [] e = "adm@wfsa" -> "ADMIN_WFSA"
              [] e = "sub@wfsa" -> "SUBGERENTE_WFSA"
              [] OTHER -> "JEFE_WFSA" ] ]

\* The principals that call responder in the model.
Respondedores == {"ana@cli", "beto@cli", "sup@wfsa"}

\* encuesta_id values of the path: E1 and E2 are rows of
\* encuestas_solicitudes, E0 is not.
EncuestaIds == {"E0", "E1", "E2"}
Existentes == {"E1", "E2"}

\* request.respuestas, as the list of its pregunta_id values.
Requests == { <<"P1", "P2">>, <<"P1", "P1">> }

\* A row of encuestas_solicitudes that the scheduling job created.
Pendiente(modo, dest) ==
    [ modo |-> modo, email_destinatario |-> dest, estado |-> "pendiente",
      fecha_limite |-> FechaLimite,
      respondido_por_email |-> Nulo, respondido_por_nombre |-> Nulo,
      tipo_respuesta |-> Nulo, fecha_respuesta |-> SinFecha ]

\* tipo_respuesta as responder_encuesta derives it from rol_id.
TipoRespuesta(rol_usuario) == IF rol_usuario = "CLIENTE" THEN "cliente" ELSE "wfsa"

\* The UPDATE of responder_encuesta applied to one row.
Completar(row, user, ts) ==
    [ row EXCEPT !.estado = "completada",
                 !.respondido_por_email = user.email,
                 !.respondido_por_nombre = user.nombre_completo,
                 !.tipo_respuesta = TipoRespuesta(user.rol_id),
                 !.fecha_respuesta = ts ]

VARIABLES
    solicitudes,   \* encuestas_solicitudes: encuesta_id -> row
    respuestas,    \* encuestas_respuestas: set of rows
    now,           \* the clock
    calls,         \* responder_encuesta calls: slot -> local state
    vista,         \* the last response of a read endpoint
    usuario_inst,  \* usuario_instalaciones: set of rows
    usuarios,      \* usuarios_app / v_permisos_usuarios: email_login -> row
    request,       \* the request in flight, from its header to its response
    nrequests,     \* requests received so far
    mensajes,      \* mensajes_whatsapp: set of rows
    calculo,       \* a pure function of the program: its inputs and its results
    notificacion   \* send_message_notification: the request in flight

vars == << solicitudes, respuestas, now, calls, vista, usuario_inst,
           usuarios, request, nrequests, mensajes, calculo, notificacion >>

\* The variables of each part of the program.
varsEncuestas == << solicitudes, respuestas, now, calls >>
varsLectura == << vista, usuario_inst >>
varsAuth == << usuarios, request, nrequests, mensajes >>
varsCalculo == << calculo >>
varsNotificacion == << notificacion >>

Calls == 1..MaxCalls

\* HTTP results.  status 0: the call has not answered yet.
SinResultado == [ status |-> 0, detail |-> "" ]
Ok200 == [ status |-> 200, detail |-> "Encuesta respondida exitosamente" ]
Err(status, detail) == [ status |-> status, detail |-> detail ]

Idle == [ pc |-> "idle", user |-> Nulo, encuesta_id |-> Nulo, req |-> << >>,
          ahora |-> SinFecha, result |-> SinResultado ]

\* ----------------------------------------- the tables the other parts read
\* A read endpoint has not answered.
\* SQL NULL / Python None in a numeric column.
SinNumero == -1
\* The aggregate of a response that carries none.
SinCuerpo ==
    [ total_turnos_activos |-> SinNumero, porcentaje_cobertura_general |-> SinNumero,
      estado_semaforo |-> Nulo ]
SinVista == [ endpoint |-> Nulo, user |-> Nulo, param |-> Nulo,
              result |-> SinResultado, filas |-> {}, cuerpo |-> SinCuerpo, instalaciones |-> {} ]

\* Installations are keyed by (cliente_rol, instalacion_rol): CLI_A and CLI_B
\* each own an installation whose instalacion_rol is I1.
Instalaciones == { << "CLI_A", "I1" >>, << "CLI_B", "I1" >>, << "CLI_A", "I2" >> }
InstalacionRoles == { i[2] : i \in Instalaciones }

\* A row of usuario_instalaciones.
Grant(email, inst, ver) ==
    [ email_login |-> email, cliente_rol |-> inst[1], instalacion_rol |-> inst[2],
      puede_ver |-> ver ]

\* The tenant of each account (cliente_rol of v_permisos_usuarios).
ClienteRolDe(email) ==
    CASE email = "ana@cli" -> "CLI_A"
      [] email = "beto@cli" -> "CLI_B"
      [] OTHER -> "WFSA"

\* A row of v_permisos_usuarios: the account, its firebase_uid and its
\* PermissionSet flags (the flags the modelled gates read).
Cuenta(email, activo, uid, cobertura, enviar, recibidos) ==
    [ email_login |-> email,
      nombre_completo |-> Principals[email].nombre_completo,
      cliente_rol |-> ClienteRolDe(email),
      rol_id |-> Principals[email].rol_id,
      usuario_activo |-> activo,
      firebase_uid |-> uid,
      puede_ver_cobertura |-> cobertura,
      puede_ver_encuestas |-> TRUE,
      puede_enviar_mensajes |-> enviar,
      puede_ver_mensajes_recibidos |-> recibidos ]

\* The accounts table where it is not the subject: every principal is active,
\* has signed in before and holds every capability.
UsuariosFijos ==
    [ u \in DOMAIN Principals |-> Cuenta(u, TRUE, "uid_" \o u, TRUE, TRUE, TRUE) ]

\* The grants where they are not the subject: each client sees the
\* installations of its tenant.
UsuarioInstFijo ==
    UNION { { Grant(u, i, TRUE) : i \in { j \in Instalaciones : j[1] = ClienteRolDe(u) } } :
            u \in { "ana@cli", "beto@cli" } }

\* No user_data: the dependency returned nothing.
SinUsuario ==
    [ uid |-> Nulo, email |-> Nulo, cliente_rol |-> Nulo, rol_id |-> Nulo,
      permisos |-> [ puede_ver_cobertura |-> FALSE, puede_ver_encuestas |-> FALSE,
                     puede_enviar_mensajes |-> FALSE,
                     puede_ver_mensajes_recibidos |-> FALSE ] ]

\* No Authorization header (Header(None)).
SinToken == [ valido |-> FALSE, uid |-> Nulo, email |-> Nulo ]
SinHeader == [ forma |-> "None", credencial |-> SinToken ]

\* No request has arrived.
\* No row of v_permisos_usuarios.
SinCuenta ==
    [ email_login |-> Nulo, nombre_completo |-> Nulo, cliente_rol |-> Nulo,
      rol_id |-> Nulo, usuario_activo |-> FALSE, firebase_uid |-> Nulo,
      puede_ver_cobertura |-> FALSE, puede_ver_encuestas |-> FALSE,
      puede_enviar_mensajes |-> FALSE, puede_ver_mensajes_recibidos |-> FALSE ]
SinRequest ==
    [ id |-> 0, pc |-> "idle", authorization |-> SinHeader, endpoint |-> Nulo,
      instalaciones |-> << >>, user |-> SinUsuario, i |-> 0, contactos |-> {},
      consultas |-> {}, enviados |-> 0, result |-> SinResultado,
      uid_previo |-> Nulo, filas_actualizadas |-> 0, user_data |-> SinCuenta ]

\* The state of the parts a specification leaves alone.
LlamadasFijas ==
    /\ now = 0
    /\ calls = [ c \in Calls |-> Idle ]
EncuestasFijas ==
    /\ solicitudes = [ e \in Existentes |->
                         IF e = "E1" THEN Pendiente("compartida", Nulo)
                                     ELSE Pendiente("individual", "ana@cli") ]
    /\ respuestas = {}
    /\ LlamadasFijas
LecturaFija ==
    /\ vista = SinVista
    /\ usuario_inst = UsuarioInstFijo
AuthFija ==
    /\ usuarios = UsuariosFijos
    /\ request = SinRequest
    /\ nrequests = 0
    /\ mensajes = {}
\* config.py 39-40: the defaults.
UmbralesPorDefecto == [ verde |-> 95, amarillo |-> 80 ]
\* No function has been called; the thresholds are those of config.py.
SinCalculo == [ fn |-> Nulo, entrada |-> UmbralesPorDefecto, salida |-> << >> ]
CalculoFijo == calculo = SinCalculo

\* The body of a response of send_message_notification that was not given.
SinRespuesta ==
    [ success |-> FALSE, message |-> Nulo, sent_count |-> SinNumero,
      failed_count |-> SinNumero, total_tokens |-> SinNumero ]
\* No send_message_notification request has been received.
SinNotificacion ==
    [ pc |-> "idle", sender_id |-> Nulo, visible_para_cliente |-> TRUE,
      participant_user_ids |-> {}, tokens |-> << >>, idx |-> 0,
      success_count |-> 0, failure_count |-> 0, errors |-> << >>,
      enviados |-> << >>, response |-> SinRespuesta ]
NotificacionFija == notificacion = SinNotificacion

\* ------------------------------------------------------ responder_encuesta
\* Precondiciones with the expiry check moved before the shared-completed check.
Precondiciones_expiraPrimero(encuesta_result, user_email, ahora_utc) ==
    IF encuesta_result = {} THEN Err(404, "Encuesta no encontrada")
    ELSE LET encuesta == CHOOSE r \in encuesta_result : TRUE IN
      IF encuesta.modo = "individual" /\ encuesta.email_destinatario # user_email
        THEN Err(403, "individual: solo el destinatario")
      ELSE IF encuesta.fecha_limite < ahora_utc
        THEN Err(400, "ya expiro")
      ELSE IF encuesta.modo = "compartida" /\ encuesta.estado = "completada"
        THEN Err(400, "ya fue respondida por")
      ELSE IF encuesta.estado = "completada" /\ encuesta.respondido_por_email = user_email
        THEN Err(400, "Ya ha respondido esta encuesta")
      ELSE SinResultado

\* Precondiciones without the check of the addressed recipient.
Precondiciones_sinDestinatario(encuesta_result, user_email, ahora_utc) ==
    IF encuesta_result = {} THEN Err(404, "Encuesta no encontrada")
    ELSE LET encuesta == CHOOSE r \in encuesta_result : TRUE IN
      IF encuesta.modo = "compartida" /\ encuesta.estado = "completada"
        THEN Err(400, "ya fue respondida por")
      ELSE IF encuesta.fecha_limite < ahora_utc
        THEN Err(400, "ya expiro")
      ELSE IF encuesta.estado = "completada" /\ encuesta.respondido_por_email = user_email
        THEN Err(400, "Ya ha respondido esta encuesta")
      ELSE SinResultado

\* Precondiciones with the expiry comparison made non-strict.
Precondiciones_expiraIgual(encuesta_result, user_email, ahora_utc) ==
    IF encuesta_result = {} THEN Err(404, "Encuesta no encontrada")
    ELSE LET encuesta == CHOOSE r \in encuesta_result : TRUE IN
      IF encuesta.modo = "individual" /\ encuesta.email_destinatario # user_email
        THEN Err(403, "individual: solo el destinatario")
      ELSE IF encuesta.modo = "compartida" /\ encuesta.estado = "completada"
        THEN Err(400, "ya fue respondida por")
      ELSE IF encuesta.fecha_limite <= ahora_utc
        THEN Err(400, "ya expiro")
      ELSE IF encuesta.estado = "completada" /\ encuesta.respondido_por_email = user_email
        THEN Err(400, "Ya ha respondido esta encuesta")
      ELSE SinResultado

\* Lines 330-358: the checks on the row that was read, in the order of the
\* code.  encuesta_result is the SELECT's result: a set with at most one row.
Precondiciones(encuesta_result, user_email, ahora_utc) ==
    IF encuesta_result = {} THEN Err(404, "Encuesta no encontrada")
    ELSE LET encuesta == CHOOSE r \in encuesta_result : TRUE IN
      IF encuesta.modo = "individual" /\ encuesta.email_destinatario # user_email
        THEN Err(403, "individual: solo el destinatario")
      ELSE IF encuesta.modo = "compartida" /\ encuesta.estado = "completada"
        THEN Err(400, "ya fue respondida por")
      ELSE IF encuesta.fecha_limite < ahora_utc
        THEN Err(400, "ya expiro")
      ELSE IF encuesta.estado = "completada" /\ encuesta.respondido_por_email = user_email
        THEN Err(400, "Ya ha respondido esta encuesta")
      ELSE SinResultado

\* Lines 315-328: SELECT * FROM encuestas_solicitudes WHERE encuesta_id = @id LIMIT 1.
QueryEncuesta(tabla, encuesta_id) ==
    IF encuesta_id \in DOMAIN tabla THEN { tabla[encuesta_id] } ELSE {}

\* Lines 360-372: the rows built from request.respuestas, one per element;
\* respuesta_id is a fresh uuid, modelled as (call, position).  The payload
\* columns (respuesta_valor, comentario_adicional, fecha_respuesta) are left out.
RespuestasParaInsertar(c, encuesta_id, req) ==
    { [ respuesta_id |-> << c, i >>, encuesta_id |-> encuesta_id,
        pregunta_id |-> req[i] ] : i \in 1..Len(req) }

\* QueryUpdate that matches no row.
QueryUpdate_sinFilas(tabla, encuesta_id, user, ts) == tabla

\* QueryUpdate without the predicate on the current estado.
QueryUpdate_sinEstado(tabla, encuesta_id, user, ts) ==
    [ e \in DOMAIN tabla |->
        IF e = encuesta_id THEN Completar(tabla[e], user, ts) ELSE tabla[e] ]

\* Lines 382-405: UPDATE ... SET estado = 'completada', ... WHERE encuesta_id
\* = @encuesta_id AND estado = 'pendiente'.
QueryUpdate(tabla, encuesta_id, user, ts) ==
    [ e \in DOMAIN tabla |->
        IF e = encuesta_id /\ tabla[e].estado = "pendiente"
          THEN Completar(tabla[e], user, ts)
          ELSE tabla[e] ]

\* Lines 330-358 without their raise: the call goes on to the insert although
\* a check failed.
Raise_sigue(u, e, rs, r) ==
    [ pc |-> "leido", user |-> u, encuesta_id |-> e, req |-> rs,
      ahora |-> SinFecha, result |-> r ]

\* Lines 330-358: each failed check raises HTTPException; the call ends there
\* with that response.
Raise(u, e, rs, r) ==
    [ pc |-> "fin", user |-> u, encuesta_id |-> e, req |-> << >>,
      ahora |-> SinFecha, result |-> r ]

\* The first round trip: the SELECT, then the checks; a call whose checks pass
\* takes the timestamps ahora_utc / ahora and goes on to the insert.
Leer(c, u, e, rs) ==
    /\ calls[c].pc = "idle"
    /\ \A d \in Calls : d < c => calls[d].pc # "idle"
    /\ LET r == Precondiciones(QueryEncuesta(solicitudes, e), u, now) IN
         calls' = [ calls EXCEPT ![c] =
            IF r.status = 0
              THEN [ pc |-> "leido", user |-> u, encuesta_id |-> e, req |-> rs,
                     ahora |-> now, result |-> SinResultado ]
              ELSE Raise(u, e, rs, r) ]
    /\ UNCHANGED << solicitudes, respuestas, now >>
    /\ UNCHANGED << varsLectura, varsAuth, varsCalculo, varsNotificacion >>

\* The SELECT raises: except Exception -> 500.
LeerFalla(c, u, e, rs) ==
    /\ calls[c].pc = "idle"
    /\ \A d \in Calls : d < c => calls[d].pc # "idle"
    /\ calls' = [ calls EXCEPT ![c] =
          [ pc |-> "fin", user |-> u, encuesta_id |-> e, req |-> << >>,
            ahora |-> SinFecha, result |-> Err(500, "Error al responder encuesta") ] ]
    /\ UNCHANGED << solicitudes, respuestas, now >>
    /\ UNCHANGED << varsLectura, varsAuth, varsCalculo, varsNotificacion >>

\* Line 374: insert_rows_json stores the rows.
Insertar(c) ==
    /\ calls[c].pc = "leido"
    /\ respuestas' = respuestas \cup
          RespuestasParaInsertar(c, calls[c].encuesta_id, calls[c].req)
    /\ calls' = [ calls EXCEPT ![c].pc = "insertado", ![c].ahora = SinFecha ]
    /\ UNCHANGED << solicitudes, now >>
    /\ UNCHANGED << varsLectura, varsAuth, varsCalculo, varsNotificacion >>

\* Lines 374-380: insert_rows_json reports errors (or raises): 500, no row stored.
InsertarFalla(c) ==
    /\ calls[c].pc = "leido"
    /\ calls' = [ calls EXCEPT ![c].pc = "fin", ![c].req = << >>, ![c].ahora = SinFecha,
                               ![c].result = Err(500, "Error al guardar respuestas") ]
    /\ UNCHANGED << solicitudes, respuestas, now >>
    /\ UNCHANGED << varsLectura, varsAuth, varsCalculo, varsNotificacion >>

\* Lines 382-412: the conditional UPDATE, then the success response.
Actualizar(c) ==
    /\ calls[c].pc = "insertado"
    /\ solicitudes' = QueryUpdate(solicitudes, calls[c].encuesta_id,
                                  Principals[calls[c].user], now)
    /\ calls' = [ calls EXCEPT ![c].pc = "fin", ![c].req = << >>, ![c].result = Ok200 ]
    /\ UNCHANGED << respuestas, now >>
    /\ UNCHANGED << varsLectura, varsAuth, varsCalculo, varsNotificacion >>

\* Line 405 raises: except Exception -> 500; the inserted rows stay.
ActualizarFalla(c) ==
    /\ calls[c].pc = "insertado"
    /\ calls' = [ calls EXCEPT ![c].pc = "fin", ![c].req = << >>,
                               ![c].result = Err(500, "Error al responder encuesta") ]
    /\ UNCHANGED << solicitudes, respuestas, now >>
    /\ UNCHANGED << varsLectura, varsAuth, varsCalculo, varsNotificacion >>

\* Time passes.
Tick ==
    /\ now < MaxTime
    /\ now' = now + 1
    /\ UNCHANGED << solicitudes, respuestas, calls >>
    /\ UNCHANGED << varsLectura, varsAuth, varsCalculo, varsNotificacion >>

\* The rows a completed survey of the initial state has: one per question.
RespuestasIniciales(tabla) ==
    { [ respuesta_id |-> << 0, i >>, encuesta_id |-> e,
        pregunta_id |-> << "P1", "P2" >>[i] ] :
      e \in { x \in DOMAIN tabla : tabla[x].estado = "completada" }, i \in 1..2 }

\* The survey tables the program can be in before the calls: E1 is shared, E2
\* is addressed to ana; each is pending or was completed at instant 0 by a
\* principal that responder_encuesta lets complete it.
SolicitudesIniciales ==
    { [ e \in Existentes |-> IF e = "E1" THEN s1 ELSE s2 ] :
        s1 \in { Pendiente("compartida", Nulo) } \cup
               { Completar(Pendiente("compartida", Nulo), Principals[u], 0) :
                   u \in {"beto@cli"} },
        s2 \in { Pendiente("individual", "ana@cli"),
                 Completar(Pendiente("individual", "ana@cli"), Principals["ana@cli"], 0) } }

Init ==
    /\ solicitudes \in SolicitudesIniciales
    /\ respuestas = RespuestasIniciales(solicitudes)
    /\ LlamadasFijas
    /\ LecturaFija
    /\ AuthFija
    /\ CalculoFijo
    /\ NotificacionFija

Next ==
    \/ \E c \in Calls, u \in Respondedores, e \in EncuestaIds, rs \in Requests :
          Leer(c, u, e, rs)
    \/ \E c \in Calls, u \in Respondedores, e \in EncuestaIds, rs \in Requests :
          LeerFalla(c, u, e, rs)
    \/ \E c \in Calls : Insertar(c)
    \/ \E c \in Calls : InsertarFalla(c)
    \/ \E c \in Calls : Actualizar(c)
    \/ \E c \in Calls : ActualizarFalla(c)
    \/ Tick

Spec == Init /\ [][Next]_vars

\* responder_encuesta with no data-store failure.  A call that has passed the
\* checks is a coroutine the server runs to its end: each of its two remaining
\* round trips returns, so each is taken once it is enabled.
NextJusto ==
    \/ \E c \in Calls, u \in Respondedores, e \in EncuestaIds, rs \in Requests :
          Leer(c, u, e, rs)
    \/ \E c \in Calls : Insertar(c)
    \/ \E c \in Calls : Actualizar(c)
    \/ Tick

SpecJusto ==
    /\ Init
    /\ [][NextJusto]_vars
    /\ \A c \in Calls : WF_vars(Insertar(c)) /\ WF_vars(Actualizar(c))

\* ------------------------------------------- properties of responder_encuesta
\* The answer rows call c has stored.
RowsOf(c) == { r \in respuestas : r.respuesta_id[1] = c }

Expirada == Err(400, "ya expiro")
YaRespondidaPor == Err(400, "ya fue respondida por")
YaHaRespondido == Err(400, "Ya ha respondido esta encuesta")

\* C1: two respond calls by different principals on the same shared survey,
\* one of which succeeded and neither of which expired or met a data-store
\* failure: the other one got Conflict (400) and the survey records the
\* successful caller as its responder.
C1_ExactlyOneWins ==
    \A c1 \in Calls, c2 \in Calls :
        ( /\ c1 # c2
          /\ calls[c1].pc = "fin" /\ calls[c2].pc = "fin"
          /\ calls[c1].encuesta_id = calls[c2].encuesta_id
          /\ calls[c1].encuesta_id \in DOMAIN solicitudes
          /\ solicitudes[calls[c1].encuesta_id].modo = "compartida"
          /\ calls[c1].user # calls[c2].user
          /\ calls[c1].result.status = 200
          /\ calls[c2].result.status # 500
          /\ calls[c2].result # Expirada )
        => /\ calls[c2].result = YaRespondidaPor
           /\ solicitudes[calls[c1].encuesta_id].respondido_por_email = calls[c1].user

\* C3: completada is terminal: no step changes any field of a survey row
\* whose estado is completada.
C3_CompletadaTerminal ==
    [][ \A e \in DOMAIN solicitudes :
          solicitudes[e].estado = "completada" => solicitudes'[e] = solicitudes[e] ]_vars

\* C3 witness: a respond call ran its UPDATE on a survey another principal had
\* completed, and the row still names the other principal.
C3_Witness ==
    \E c \in Calls :
        /\ calls[c].pc = "fin" /\ calls[c].result.status = 200
        /\ solicitudes[calls[c].encuesta_id].estado = "completada"
        /\ solicitudes[calls[c].encuesta_id].respondido_por_email # calls[c].user

\* C4: respond is atomic: a finished call either stored its rows and the
\* survey is completada with the caller as responder, or stored no row and
\* did not succeed.
C4_Atomic ==
    \A c \in Calls :
        calls[c].pc = "fin" =>
          \/ /\ RowsOf(c) # {}
             /\ solicitudes[calls[c].encuesta_id].estado = "completada"
             /\ solicitudes[calls[c].encuesta_id].respondido_por_email = calls[c].user
          \/ /\ RowsOf(c) = {}
             /\ calls[c].result.status # 200

\* The preconditions of respond as the specification numbers them.
Falla(k, tabla, e, u, t) ==
    CASE k = 1 -> e \notin DOMAIN tabla
      [] k = 2 -> tabla[e].modo = "individual" /\ tabla[e].email_destinatario # u
      [] k = 3 -> tabla[e].modo = "compartida" /\ tabla[e].estado = "completada"
      [] k = 4 -> tabla[e].fecha_limite < t
      [] OTHER -> tabla[e].estado = "completada" /\ tabla[e].respondido_por_email = u

\* The earliest failing precondition, 0 when none fails.
PrimeraFalla(tabla, e, u, t) ==
    IF e \notin DOMAIN tabla THEN 1
    ELSE IF \E k \in 2..5 : Falla(k, tabla, e, u, t)
      THEN CHOOSE k \in 2..5 :
             /\ Falla(k, tabla, e, u, t)
             /\ \A j \in 2..5 : Falla(j, tabla, e, u, t) => k <= j
      ELSE 0

\* The failure mode of each precondition.
ModoDeFalla(k) ==
    CASE k = 0 -> SinResultado
      [] k = 1 -> Err(404, "Encuesta no encontrada")
      [] k = 2 -> Err(403, "individual: solo el destinatario")
      [] k = 3 -> YaRespondidaPor
      [] k = 4 -> Expirada
      [] OTHER -> YaHaRespondido

\* Call c leaves "idle" in this step and its SELECT did not raise.
Lee(c) ==
    /\ calls[c].pc = "idle"
    /\ calls'[c].pc # "idle"
    /\ calls'[c].result.status # 500

\* C5: the result of the checks of a call is the failure mode of the earliest
\* failing precondition in the order 404, 403, Conflict (shared, completed),
\* Expired, Conflict (same principal); the call goes on when none fails.
C5_OrdenPrecondiciones ==
    [][ \A c \in Calls :
          Lee(c) =>
            calls'[c].result =
              ModoDeFalla(PrimeraFalla(solicitudes, calls'[c].encuesta_id,
                                       calls'[c].user, now)) ]_vars

\* C5 witness: a call by the principal that had completed a shared survey:
\* preconditions 3 and 5 both fail, the result is that of 3.
C5_Witness ==
    \E c \in Calls :
        /\ calls[c].pc = "fin" /\ calls[c].result = YaRespondidaPor
        /\ solicitudes[calls[c].encuesta_id].respondido_por_email = calls[c].user

\* C6: a call on an individual survey by a principal other than its
\* email_destinatario never gets past the checks: it ends 403 (500 when the
\* SELECT raised) and stores nothing; and a completada individual survey
\* names its email_destinatario as responder.
C6_SoloDestinatario ==
    /\ \A c \in Calls :
         ( /\ calls[c].pc # "idle"
           /\ calls[c].encuesta_id \in DOMAIN solicitudes
           /\ solicitudes[calls[c].encuesta_id].modo = "individual"
           /\ solicitudes[calls[c].encuesta_id].email_destinatario # calls[c].user )
         => /\ calls[c].pc = "fin"
            /\ calls[c].result.status \in {403, 500}
            /\ RowsOf(c) = {}
    /\ \A e \in DOMAIN solicitudes :
         solicitudes[e].modo = "individual" /\ solicitudes[e].estado = "completada"
           => solicitudes[e].respondido_por_email = solicitudes[e].email_destinatario

\* C6 witness: a WFSA principal was refused on an individual survey that its
\* recipient then completed.
C6_Witness ==
    \E c \in Calls, d \in Calls :
        /\ calls[c].pc = "fin" /\ calls[c].result.status = 403
        /\ Principals[calls[c].user].rol_id = "SUPERVISOR_WFSA"
        /\ calls[d].pc = "fin" /\ calls[d].result.status = 200
        /\ calls[d].encuesta_id = calls[c].encuesta_id
        /\ solicitudes[calls[d].encuesta_id].respondido_por_email = calls[d].user

\* Preconditions 1-3 hold for (e, u) on the table.
Pasa123(tabla, e, u) ==
    /\ e \in DOMAIN tabla
    /\ ~ Falla(2, tabla, e, u, 0)
    /\ ~ Falla(3, tabla, e, u, 0)

EsWfsaRespuestas(rol) == rol \in { "ADMIN_WFSA", "SUBGERENTE_JEFE_WFSA", "SUPERVISOR_WFSA" }

\* Lines 449-459: the checks on the survey row that was read.
PermisoRespuestas(encuesta_result, user_email, es_wfsa) ==
    IF encuesta_result = {} THEN Err(404, "Encuesta no encontrada")
    ELSE LET encuesta == CHOOSE r \in encuesta_result : TRUE IN
      IF ~es_wfsa /\ encuesta.modo = "individual"
                  /\ encuesta.email_destinatario # user_email
        THEN Err(403, "No tiene permiso para ver estas respuestas")
      ELSE IF encuesta.estado # "completada"
        THEN Err(400, "Esta encuesta aun no ha sido respondida")
      ELSE SinResultado

\* The questions table (encuestas_preguntas).
Preguntas == { "P1", "P2" }

\* Lines 461-478: the answers of the survey, joined to their questions.
QueryRespuestas(tabla, encuesta_id) ==
    { r \in tabla : r.encuesta_id = encuesta_id /\ r.pregunta_id \in Preguntas }

\* GET /api/encuestas/{encuesta_id}/respuestas.
VerRespuestas(u, e) ==
    /\ LET r == PermisoRespuestas(QueryEncuesta(solicitudes, e), u,
                                  EsWfsaRespuestas(Principals[u].rol_id)) IN
         vista' = [ endpoint |-> "encuestas/respuestas", user |-> u, param |-> e,
                    result |-> IF r.status = 0 THEN Err(200, "success") ELSE r,
                    filas |-> IF r.status = 0 THEN QueryRespuestas(respuestas, e)
                                              ELSE {},
                    cuerpo |-> SinCuerpo, instalaciones |-> {} ]
    /\ UNCHANGED << varsEncuestas, usuario_inst, varsAuth, varsCalculo, varsNotificacion >>

\* A query of ver_respuestas_encuesta raises: except Exception -> 500.
VerRespuestasFalla(u, e) ==
    /\ vista' = [ endpoint |-> "encuestas/respuestas", user |-> u, param |-> e,
                  result |-> Err(500, "Error al obtener respuestas"), filas |-> {},
                  cuerpo |-> SinCuerpo, instalaciones |-> {} ]
    /\ UNCHANGED << varsEncuestas, usuario_inst, varsAuth, varsCalculo, varsNotificacion >>

\* The survey tables a reader can find: the shared survey pending or completed
\* by any respondent, the addressed one pending or completed by its recipient.
SolicitudesLectura ==
    { [ e \in Existentes |-> IF e = "E1" THEN s1 ELSE s2 ] :
        s1 \in { Pendiente("compartida", Nulo) } \cup
               { Completar(Pendiente("compartida", Nulo), Principals[u], 0) :
                   u \in Respondedores },
        s2 \in { Pendiente("individual", "ana@cli"),
                 Completar(Pendiente("individual", "ana@cli"), Principals["ana@cli"], 0) } }

InitLectura ==
    /\ solicitudes \in SolicitudesLectura
    /\ respuestas = RespuestasIniciales(solicitudes)
    /\ LlamadasFijas
    /\ LecturaFija
    /\ AuthFija
    /\ CalculoFijo
    /\ NotificacionFija

NextLectura ==
    \/ \E u \in DOMAIN Principals, e \in EncuestaIds : VerRespuestas(u, e)
    \/ \E u \in DOMAIN Principals, e \in EncuestaIds : VerRespuestasFalla(u, e)

SpecLectura == InitLectura /\ [][NextLectura]_vars

\* The roles the survey listing (obtener_mis_encuestas, line 32) treats as WFSA.
RolesWfsaListado == { "ADMIN_WFSA", "SUBGERENTE_WFSA", "JEFE_WFSA", "SUPERVISOR_WFSA" }

\* C8: viewing the respuestas of an individual survey: a principal other than
\* the recipient gets 403 unless it holds a WFSA role, and a principal holding
\* any of the four WFSA roles of the survey listing never gets 403.
C8_WfsaNuncaForbidden ==
    vista.endpoint = "encuestas/respuestas" =>
      LET rol == Principals[vista.user].rol_id
          enc == QueryEncuesta(solicitudes, vista.param) IN
        /\ rol \in RolesWfsaListado => vista.result.status # 403
        /\ ( /\ rol \notin RolesWfsaListado
             /\ \E s \in enc : s.modo = "individual" /\ s.email_destinatario # vista.user
             /\ vista.result.status # 500 )
           => vista.result.status = 403

\* ------------------------------------------------- calcular_estado_semaforo
\* Percentages are counted in hundredths of a point (94.99 is 9499) and the
\* configured thresholds in hundredths (0.95 is 95): the comparison
\* porcentaje >= SEMAFORO_VERDE * 100 of the code is then the same comparison
\* of integers.  For each threshold used here, the product the code computes
\* in floating point is the exact one.
SEMAFORO_VERDE == calculo.entrada.verde
SEMAFORO_AMARILLO == calculo.entrada.amarillo

calcular_estado_semaforo_estricto(porcentaje) ==
    IF porcentaje > SEMAFORO_VERDE * 100 THEN "VERDE"
    ELSE IF porcentaje > SEMAFORO_AMARILLO * 100 THEN "AMARILLO"
    ELSE "ROJO"

\* semaforo.py 7-16.
calcular_estado_semaforo(porcentaje) ==
    IF porcentaje >= SEMAFORO_VERDE * 100 THEN "VERDE"
    ELSE IF porcentaje >= SEMAFORO_AMARILLO * 100 THEN "AMARILLO"
    ELSE "ROJO"

\* --------------------------------------- endpoints that return scoped rows
\* The principals that call the scoped endpoints.
UsuariosAlcance == { "ana@cli", "sup@wfsa" }

\* A fact table keyed by installation: one row per installation, the columns
\* other than the key are left out.
Tabla(nombre) ==
    { [ tabla |-> nombre, cliente_rol |-> i[1], instalacion_rol |-> i[2] ] :
      i \in Instalaciones }

\* instalacion_contacto, and contactos keyed by contacto_id.
InstContacto ==
    { [ cliente_rol |-> "CLI_A", instalacion_rol |-> "I1", contacto_id |-> "K1" ],
      [ cliente_rol |-> "CLI_B", instalacion_rol |-> "I1", contacto_id |-> "K2" ],
      [ cliente_rol |-> "CLI_A", instalacion_rol |-> "I2", contacto_id |-> "K3" ],
      [ cliente_rol |-> "CLI_A", instalacion_rol |-> "I1", contacto_id |-> "K4" ] }
Contactos ==
    [ k \in { "K1", "K2", "K3", "K4" } |->
        CASE k = "K1" -> [ activo |-> TRUE, es_usuario_app |-> TRUE,
                           email_usuario_app |-> "sup@wfsa" ]
          [] k = "K2" -> [ activo |-> TRUE, es_usuario_app |-> TRUE,
                           email_usuario_app |-> "jefe@wfsa" ]
          [] k = "K3" -> [ activo |-> TRUE, es_usuario_app |-> FALSE,
                           email_usuario_app |-> Nulo ]
          [] OTHER    -> [ activo |-> FALSE, es_usuario_app |-> TRUE,
                           email_usuario_app |-> "adm@wfsa" ] ]

\* INNER JOIN usuario_instalaciones ui ON t.cliente_rol = ui.cliente_rol AND
\* t.instalacion_rol = ui.instalacion_rol WHERE ui.email_login = @user_email
\* AND ui.puede_ver = TRUE.
JoinAmbos(filas, ui, user_email) ==
    { f \in filas : \E g \in ui :
        /\ g.email_login = user_email /\ g.puede_ver
        /\ g.cliente_rol = f.cliente_rol /\ g.instalacion_rol = f.instalacion_rol }

\* INNER JOIN usuario_instalaciones ui ON t.instalacion_rol = ui.instalacion_rol
\* WHERE ui.email_login = @user_email AND ui.puede_ver = TRUE.
JoinInstalacion(filas, ui, user_email) ==
    { f \in filas : \E g \in ui :
        /\ g.email_login = user_email /\ g.puede_ver
        /\ g.instalacion_rol = f.instalacion_rol }

\* LEFT JOIN (SELECT instalacion_rol, COUNT(*) FROM cr_ppc_dia GROUP BY
\* instalacion_rol) ppc ON ci.instalacion_rol = ppc.instalacion_rol: the PPC
\* rows counted into the rows of ci.
PpcContados(ci) ==
    { p \in Tabla("cr_ppc_dia") : \E c \in ci : c.instalacion_rol = p.instalacion_rol }

\* The query of the three per-installation coverage endpoints.
QueryPorInstalacion(ui, user_email) ==
    LET ci == JoinAmbos(Tabla("cobertura_instantanea_agregada"), ui, user_email) IN
      ci \cup PpcContados(ci)

\* The response of a scoped endpoint: 200 with the rows it carries.
Respuesta(ep, u, param, filas) ==
    [ endpoint |-> ep, user |-> u, param |-> param,
      result |-> Err(200, "success"), filas |-> filas, cuerpo |-> SinCuerpo, instalaciones |-> {} ]

\* The guard counts of cobertura_instantanea_agregada: an installation with
\* no guard required now, one covered at 25% and one covered at 95%.
CoberturaAgregada ==
    { [ tabla |-> "cobertura_instantanea_agregada",
        cliente_rol |-> "CLI_A", instalacion_rol |-> "I1",
        total_guardias_requeridos |-> 0, guardias_presentes |-> 0 ],
      [ tabla |-> "cobertura_instantanea_agregada",
        cliente_rol |-> "CLI_A", instalacion_rol |-> "I2",
        total_guardias_requeridos |-> 4, guardias_presentes |-> 1 ],
      [ tabla |-> "cobertura_instantanea_agregada",
        cliente_rol |-> "CLI_B", instalacion_rol |-> "I1",
        total_guardias_requeridos |-> 20, guardias_presentes |-> 19 ] }

\* SQL SUM of a column over a set of rows: NULL over no rows.
RECURSIVE SumaDe(_, _)
SumaDe(filas, columna) ==
    IF filas = {} THEN 0
    ELSE LET f == CHOOSE g \in filas : TRUE IN f[columna] + SumaDe(filas \ { f }, columna)
SUM(filas, columna) == IF filas = {} THEN SinNumero ELSE SumaDe(filas, columna)

\* Lines 32-38: ROUND(SAFE_DIVIDE(x, NULLIF(y, 0)) * 100, 2), in hundredths
\* of a point; NULL when x or y is NULL or y is 0, halves rounded away from 0.
PorcentajeRedondeado(x, y) ==
    IF x = SinNumero \/ y = SinNumero \/ y = 0 THEN SinNumero
    ELSE (2 * x * 10000 + y) \div (2 * y)

\* Lines 27-55: the one row the aggregate query returns, also over no rows.
QueryCoberturaGeneral(ui, user_email) ==
    LET ci == JoinAmbos(CoberturaAgregada, ui, user_email) IN
      << [ total_turnos_activos |-> SUM(ci, "total_guardias_requeridos"),
           turnos_cubiertos |-> SUM(ci, "guardias_presentes"),
           porcentaje_cobertura_general |->
               PorcentajeRedondeado(SUM(ci, "guardias_presentes"),
                                    SUM(ci, "total_guardias_requeridos")) ] >>

\* Lines 66-91: the body built from the rows of the query.
CuerpoGeneral(results) ==
    IF results = << >> \/ results[1].total_turnos_activos = 0
      THEN [ total_turnos_activos |-> 0, porcentaje_cobertura_general |-> 0,
             estado_semaforo |-> "GRIS" ]
      ELSE LET row == results[1]
               porcentaje == IF row.porcentaje_cobertura_general \notin { SinNumero, 0 }
                               THEN row.porcentaje_cobertura_general ELSE 0
           IN [ total_turnos_activos |-> row.total_turnos_activos,
                porcentaje_cobertura_general |-> porcentaje,
                estado_semaforo |-> calcular_estado_semaforo(porcentaje) ]

\* GET /api/cobertura/instantanea/general.
CoberturaGeneral(u) ==
    /\ vista' = [ Respuesta("cobertura/general", u, Nulo,
                     JoinAmbos(Tabla("cobertura_instantanea_agregada"), usuario_inst, u)
                       \cup JoinInstalacion(Tabla("cr_ppc_dia"), usuario_inst, u))
                   EXCEPT !.cuerpo = CuerpoGeneral(QueryCoberturaGeneral(usuario_inst, u)) ]
    /\ UNCHANGED << varsEncuestas, usuario_inst, varsAuth, varsCalculo, varsNotificacion >>

\* Lines 105-145 and 201-238: one row per installation the caller is joined
\* to, with the guard counts summed over the group and the rounded ratio.
QueryCoberturaAgrupada(ui, user_email) ==
    LET ci == JoinAmbos(CoberturaAgregada, ui, user_email)
        Grupo(f) == { g \in ci : /\ g.cliente_rol = f.cliente_rol
                                 /\ g.instalacion_rol = f.instalacion_rol }
    IN { [ cliente_rol |-> f.cliente_rol, instalacion_rol |-> f.instalacion_rol,
           total_guardias_requeridos |-> SUM(Grupo(f), "total_guardias_requeridos"),
           porcentaje_cobertura |->
               PorcentajeRedondeado(SUM(Grupo(f), "guardias_presentes"),
                                    SUM(Grupo(f), "total_guardias_requeridos")) ] :
         f \in ci }

\* Lines 294-331: fast/v2 reads the columns of each row, without grouping.
QueryCoberturaFastV2(ui, user_email) ==
    { [ cliente_rol |-> f.cliente_rol, instalacion_rol |-> f.instalacion_rol,
        total_guardias_requeridos |-> f.total_guardias_requeridos,
        porcentaje_cobertura |->
            PorcentajeRedondeado(f.guardias_presentes, f.total_guardias_requeridos) ] :
      f \in JoinAmbos(CoberturaAgregada, ui, user_email) }

\* Lines 159-179, 253-270 and 346-365: the entry built for each row; a NULL
\* or zero porcentaje_cobertura becomes 0 before it is classified.
InstalacionesDe(results) ==
    { LET porcentaje == IF row.porcentaje_cobertura \notin { SinNumero, 0 }
                          THEN row.porcentaje_cobertura ELSE 0
      IN [ cliente_rol |-> row.cliente_rol, instalacion_rol |-> row.instalacion_rol,
           total_guardias_requeridos |-> row.total_guardias_requeridos,
           porcentaje_cobertura |-> porcentaje,
           estado_semaforo |-> calcular_estado_semaforo(porcentaje) ] :
      row \in results }

\* GET /api/cobertura/instantanea/por-instalacion.
CoberturaPorInstalacion(u) ==
    /\ vista' = [ Respuesta("cobertura/por-instalacion", u, Nulo,
                             QueryPorInstalacion(usuario_inst, u))
                   EXCEPT !.instalaciones =
                     InstalacionesDe(QueryCoberturaAgrupada(usuario_inst, u)) ]
    /\ UNCHANGED << varsEncuestas, usuario_inst, varsAuth, varsCalculo, varsNotificacion >>

\* GET /api/cobertura/instantanea/por-instalacion-fast.
CoberturaPorInstalacionFast(u) ==
    /\ vista' = [ Respuesta("cobertura/por-instalacion-fast", u, Nulo,
                             QueryPorInstalacion(usuario_inst, u))
                   EXCEPT !.instalaciones =
                     InstalacionesDe(QueryCoberturaAgrupada(usuario_inst, u)) ]
    /\ UNCHANGED << varsEncuestas, usuario_inst, varsAuth, varsCalculo, varsNotificacion >>

\* GET /api/cobertura/instantanea/por-instalacion-fast/v2.
CoberturaPorInstalacionFastV2(u) ==
    /\ vista' = [ Respuesta("cobertura/por-instalacion-fast/v2", u, Nulo,
                             QueryPorInstalacion(usuario_inst, u))
                   EXCEPT !.instalaciones =
                     InstalacionesDe(QueryCoberturaFastV2(usuario_inst, u)) ]
    /\ UNCHANGED << varsEncuestas, usuario_inst, varsAuth, varsCalculo, varsNotificacion >>

\* GET /api/cobertura/instantanea/detalle-todas: query_turnos and query_ppc.
DetalleTodas(u) ==
    /\ vista' = Respuesta("cobertura/detalle-todas", u, Nulo,
                    JoinInstalacion(Tabla("cobertura_instantanea"), usuario_inst, u)
                      \cup JoinInstalacion(Tabla("cr_ppc_dia"), usuario_inst, u))
    /\ UNCHANGED << varsEncuestas, usuario_inst, varsAuth, varsCalculo, varsNotificacion >>

\* GET /api/cobertura/instantanea/detalle/{instalacion_rol}.
DetalleInstalacion(u, instalacion_rol) ==
    /\ vista' = Respuesta("cobertura/detalle", u, instalacion_rol,
                    { f \in JoinAmbos(Tabla("cobertura_instantanea"), usuario_inst, u) :
                        f.instalacion_rol = instalacion_rol })
    /\ UNCHANGED << varsEncuestas, usuario_inst, varsAuth, varsCalculo, varsNotificacion >>

\* GET /api/cobertura/historico/semanal (every row lies in the last @dias days).
HistoricoSemanal(u) ==
    /\ vista' = Respuesta("historico/semanal", u, Nulo,
                    JoinAmbos(Tabla("cr_asistencia_hist_tb"), usuario_inst, u))
    /\ UNCHANGED << varsEncuestas, usuario_inst, varsAuth, varsCalculo, varsNotificacion >>

\* GET /api/cobertura/historico/por-instalacion.
HistoricoPorInstalacion(u) ==
    /\ vista' = Respuesta("historico/por-instalacion", u, Nulo,
                    JoinAmbos(Tabla("cr_asistencia_hist_tb"), usuario_inst, u))
    /\ UNCHANGED << varsEncuestas, usuario_inst, varsAuth, varsCalculo, varsNotificacion >>

\* GET /api/ppc/total.
PpcTotal(u) ==
    /\ vista' = Respuesta("ppc/total", u, Nulo, JoinInstalacion(Tabla("cr_ppc_dia"), usuario_inst, u))
    /\ UNCHANGED << varsEncuestas, usuario_inst, varsAuth, varsCalculo, varsNotificacion >>

\* GET /api/ppc/todas-instalaciones.
PpcTodas(u) ==
    /\ vista' = Respuesta("ppc/todas-instalaciones", u, Nulo,
                    JoinInstalacion(Tabla("cr_ppc_dia"), usuario_inst, u))
    /\ UNCHANGED << varsEncuestas, usuario_inst, varsAuth, varsCalculo, varsNotificacion >>

\* GET /api/ppc/por-instalacion/{instalacion_rol}.
PpcPorInstalacion(u, instalacion_rol) ==
    /\ vista' = Respuesta("ppc/por-instalacion", u, instalacion_rol,
                    { f \in JoinInstalacion(Tabla("cr_ppc_dia"), usuario_inst, u) :
                        f.instalacion_rol = instalacion_rol })
    /\ UNCHANGED << varsEncuestas, usuario_inst, varsAuth, varsCalculo, varsNotificacion >>

\* GET /api/contactos/{instalacion_rol}: the contacts, each with the
\* installation of the instalacion_contacto row it came from.
ContactosInstalacion(u, instalacion_rol) ==
    /\ vista' = Respuesta("contactos", u, instalacion_rol,
                    { [ tabla |-> "contactos", cliente_rol |-> ic.cliente_rol,
                        instalacion_rol |-> ic.instalacion_rol, contacto_id |-> ic.contacto_id ] :
                      ic \in { x \in JoinAmbos(InstContacto, usuario_inst, u) :
                                 /\ x.instalacion_rol = instalacion_rol
                                 /\ Contactos[x.contacto_id].activo } })
    /\ UNCHANGED << varsEncuestas, usuario_inst, varsAuth, varsCalculo, varsNotificacion >>

\* Lines 99-148 and 321-342 of mensajeria.py: the WFSA users that are
\* contacts of the installation and the clients granted on it, those with a
\* firebase_uid; each with the installation of the row it came from.
QueryParticipantes(ui, cuentas, instalacion_rol) ==
    LET usuarios_wfsa ==
          { [ tabla |-> "participantes", cliente_rol |-> ic.cliente_rol,
              instalacion_rol |-> ic.instalacion_rol,
              email_login |-> Contactos[ic.contacto_id].email_usuario_app ] :
            ic \in { x \in InstContacto :
                       /\ x.instalacion_rol = instalacion_rol
                       /\ Contactos[x.contacto_id].activo
                       /\ Contactos[x.contacto_id].es_usuario_app
                       /\ Contactos[x.contacto_id].email_usuario_app \in DOMAIN cuentas } }
        clientes_instalacion ==
          { [ tabla |-> "participantes", cliente_rol |-> g.cliente_rol,
              instalacion_rol |-> g.instalacion_rol, email_login |-> g.email_login ] :
            g \in { x \in ui : /\ x.instalacion_rol = instalacion_rol
                               /\ x.email_login \in DOMAIN cuentas } }
    IN  { r \in usuarios_wfsa : /\ cuentas[r.email_login].rol_id # "CLIENTE"
                                /\ cuentas[r.email_login].usuario_activo
                                /\ cuentas[r.email_login].firebase_uid # Nulo }
        \cup
        { r \in clientes_instalacion : /\ cuentas[r.email_login].rol_id = "CLIENTE"
                                       /\ cuentas[r.email_login].usuario_activo
                                       /\ cuentas[r.email_login].firebase_uid # Nulo }

\* GET /api/usuarios-wfsa/instalacion/{instalacion_rol}.
UsuariosWfsaInstalacion(u, instalacion_rol) ==
    /\ vista' = Respuesta("usuarios-wfsa/instalacion", u, instalacion_rol,
                    QueryParticipantes(usuario_inst, usuarios, instalacion_rol))
    /\ UNCHANGED << varsEncuestas, usuario_inst, varsAuth, varsCalculo, varsNotificacion >>

\* The endpoints of this part.
EndpointsAlcance ==
    { "cobertura/general", "cobertura/por-instalacion", "cobertura/por-instalacion-fast",
      "cobertura/por-instalacion-fast/v2", "cobertura/detalle-todas", "cobertura/detalle",
      "historico/semanal", "historico/por-instalacion", "ppc/total",
      "ppc/todas-instalaciones", "ppc/por-instalacion", "contactos",
      "usuarios-wfsa/instalacion" }

\* The query of a scoped endpoint raises: except Exception -> 500.
ConsultaFalla(ep, u) ==
    /\ vista' = [ endpoint |-> ep, user |-> u, param |-> Nulo,
                  result |-> Err(500, "Error al consultar BigQuery"), filas |-> {},
                  cuerpo |-> SinCuerpo, instalaciones |-> {} ]
    /\ UNCHANGED << varsEncuestas, usuario_inst, varsAuth, varsCalculo, varsNotificacion >>

\* The grants the table can hold: for each caller and installation no row, a
\* row with puede_ver = TRUE or a row with puede_ver = FALSE.
UsuarioInstIniciales ==
    { { Grant(p[1], p[2], f[p] = "ver") :
          p \in { q \in UsuariosAlcance \X Instalaciones : f[q] # "sin" } } :
      f \in [ UsuariosAlcance \X Instalaciones -> { "sin", "ver", "oculta" } ] }

InitAlcance ==
    /\ usuario_inst \in UsuarioInstIniciales
    /\ vista = SinVista
    /\ EncuestasFijas
    /\ AuthFija
    /\ CalculoFijo
    /\ NotificacionFija

NextAlcance ==
    \/ \E u \in UsuariosAlcance : CoberturaGeneral(u)
    \/ \E u \in UsuariosAlcance : CoberturaPorInstalacion(u)
    \/ \E u \in UsuariosAlcance : CoberturaPorInstalacionFast(u)
    \/ \E u \in UsuariosAlcance : CoberturaPorInstalacionFastV2(u)
    \/ \E u \in UsuariosAlcance : DetalleTodas(u)
    \/ \E u \in UsuariosAlcance, i \in InstalacionRoles : DetalleInstalacion(u, i)
    \/ \E u \in UsuariosAlcance : HistoricoSemanal(u)
    \/ \E u \in UsuariosAlcance : HistoricoPorInstalacion(u)
    \/ \E u \in UsuariosAlcance : PpcTotal(u)
    \/ \E u \in UsuariosAlcance : PpcTodas(u)
    \/ \E u \in UsuariosAlcance, i \in InstalacionRoles : PpcPorInstalacion(u, i)
    \/ \E u \in UsuariosAlcance, i \in InstalacionRoles : ContactosInstalacion(u, i)
    \/ \E u \in UsuariosAlcance, i \in InstalacionRoles : UsuariosWfsaInstalacion(u, i)
    \/ \E u \in UsuariosAlcance, ep \in EndpointsAlcance : ConsultaFalla(ep, u)

SpecAlcance == InitAlcance /\ [][NextAlcance]_vars

\* C2: every row a scoped endpoint returns belongs to an installation
\* (cliente_rol, instalacion_rol) for which the caller has a row of
\* usuario_instalaciones with puede_ver = TRUE.
C2_SoloInstalacionesVisibles ==
    vista.endpoint \in EndpointsAlcance =>
      \A f \in vista.filas : \E g \in usuario_inst :
        /\ g.email_login = vista.user /\ g.puede_ver
        /\ g.cliente_rol = f.cliente_rol /\ g.instalacion_rol = f.instalacion_rol

\* ------------------------------------------ verify_firebase_token and gates
\* Firebase ID tokens, as auth.verify_id_token sees them: whether it accepts
\* the token and the claims it decodes.  TokenNadie is the token of an
\* identity without an account, TokenMalo a forged or expired token of ana.
TokenAna == [ valido |-> TRUE, uid |-> "uid_ana", email |-> "ana@cli" ]
TokenNadie == [ valido |-> TRUE, uid |-> "uid_nadie", email |-> "nadie@cli" ]
TokenMalo == [ valido |-> FALSE, uid |-> "uid_ana", email |-> "ana@cli" ]
\* The same email after the Firebase account was created anew: another uid.
TokenAnaNuevo == [ valido |-> TRUE, uid |-> "uid_nuevo", email |-> "ana@cli" ]

\* Authorization headers: none, the empty string, "Bearer <token>", the bare
\* token and "Basic <token>".
Headers ==
    { SinHeader, [ forma |-> "vacio", credencial |-> SinToken ] } \cup
    { [ forma |-> "Bearer", credencial |-> t ] : t \in { TokenAna, TokenNadie, TokenMalo } } \cup
    { [ forma |-> "sin_esquema", credencial |-> TokenAna ],
      [ forma |-> "Basic", credencial |-> TokenAna ] }

\* Line 25: not authorization.
HeaderAusente(authorization) == authorization.forma \in { "None", "vacio" }

\* Line 30: authorization.split("Bearer ")[-1]: the text after "Bearer ", the
\* whole header when it has no "Bearer " (for "Basic <token>" that text is
\* not a token).
ExtraerToken(authorization) ==
    IF authorization.forma \in { "Bearer", "sin_esquema" }
      THEN authorization.credencial
      ELSE SinToken

\* The row kept from the request before, when it was for the same email.
QueryPermisos_conCache(tabla, user_email) ==
    IF request.user_data.email_login = user_email
      THEN { request.user_data }
      ELSE { tabla[e] : e \in { x \in DOMAIN tabla : x = user_email } }

\* Lines 39-68: SELECT ... FROM v_permisos_usuarios WHERE email_login = @user_email LIMIT 1.
QueryPermisos(tabla, user_email) ==
    { tabla[e] : e \in { x \in DOMAIN tabla : x = user_email } }

\* VerificarUsuario with the account looked up before the token is verified.
VerificarUsuario_buscaPrimero(authorization, tabla) ==
    IF HeaderAusente(authorization)
      THEN Err(401, "Token de autorizacion requerido")
    ELSE LET token == ExtraerToken(authorization)
             results == QueryPermisos(tabla, token.email) IN
      IF results = {}
        THEN Err(404, "Usuario no encontrado en la base de datos")
      ELSE IF ~(CHOOSE r \in results : TRUE).usuario_activo
        THEN Err(403, "Usuario inactivo")
      ELSE IF ~token.valido
        THEN Err(401, "Token invalido")
      ELSE SinResultado

\* Lines 25-76 and 122-125: the checks of verify_firebase_token, in the order
\* of the code, on the header and on the row the SELECT returns.
VerificarUsuario(authorization, tabla) ==
    IF HeaderAusente(authorization)
      THEN Err(401, "Token de autorizacion requerido")
    ELSE LET token == ExtraerToken(authorization) IN
      IF ~token.valido
        THEN Err(401, "Token invalido")
      ELSE LET results == QueryPermisos(tabla, token.email) IN
        IF results = {}
          THEN Err(404, "Usuario no encontrado en la base de datos")
        ELSE IF ~(CHOOSE r \in results : TRUE).usuario_activo
          THEN Err(403, "Usuario inactivo")
        ELSE SinResultado

\* Lines 79-93: UPDATE usuarios_app SET firebase_uid = @firebase_uid WHERE
\* email_login = @user_email AND (firebase_uid IS NULL OR firebase_uid != @firebase_uid).
WhereFirebaseUid_sinComparar(row, firebase_uid, user_email) ==
    row.email_login = user_email

\* Lines 82-83: the WHERE clause of that UPDATE.
WhereFirebaseUid(row, firebase_uid, user_email) ==
    /\ row.email_login = user_email
    /\ (row.firebase_uid = Nulo \/ row.firebase_uid # firebase_uid)

UpdateFirebaseUid(tabla, firebase_uid, user_email) ==
    [ e \in DOMAIN tabla |->
        IF WhereFirebaseUid(tabla[e], firebase_uid, user_email)
          THEN [ tabla[e] EXCEPT !.firebase_uid = firebase_uid ]
          ELSE tabla[e] ]

\* The rows that UPDATE writes (the job's affected rows).
FilasActualizadas(tabla, firebase_uid, user_email) ==
    Cardinality({ e \in DOMAIN tabla : WhereFirebaseUid(tabla[e], firebase_uid, user_email) })

\* Lines 102-121: the dict verify_firebase_token returns.
UserData(decoded_token, user_data) ==
    [ uid |-> decoded_token.uid, email |-> decoded_token.email,
      cliente_rol |-> user_data.cliente_rol, rol_id |-> user_data.rol_id,
      permisos |-> [ puede_ver_cobertura |-> user_data.puede_ver_cobertura,
                     puede_ver_encuestas |-> user_data.puede_ver_encuestas,
                     puede_enviar_mensajes |-> user_data.puede_enviar_mensajes,
                     puede_ver_mensajes_recibidos |-> user_data.puede_ver_mensajes_recibidos ] ]

\* The endpoints declared with Depends(verificar_permiso_cobertura).
EndpointsCobertura ==
    { "cobertura/general", "cobertura/por-instalacion", "cobertura/detalle-todas",
      "cobertura/detalle", "historico/semanal", "historico/por-instalacion",
      "ppc/total", "ppc/todas-instalaciones", "ppc/por-instalacion" }

\* The read endpoints of encuestas.py, each declared with
\* Depends(verify_firebase_token) (lines 19, 216, 424).
EndpointsEncuestas ==
    { "encuestas/mis-encuestas", "encuestas/preguntas", "encuestas/respuestas" }

\* The endpoints that answer with reads of scoped tables.
EndpointsLectura ==
    EndpointsCobertura \cup EndpointsEncuestas \cup
    { "cobertura/por-instalacion-fast", "cobertura/por-instalacion-fast/v2",
      "contactos", "usuarios-wfsa/instalacion", "whatsapp/mensajes-recibidos" }

Endpoints == EndpointsLectura \cup { "whatsapp/enviar-mensaje", "auth/me" }

\* The dependency each endpoint declares for its user parameter.
Dependencia(ep) ==
    CASE ep \in EndpointsCobertura -> "verificar_permiso_cobertura"
      [] ep = "whatsapp/enviar-mensaje" -> "verificar_permiso_mensajes"
      [] OTHER -> "verify_firebase_token"

\* Gate letting every principal through.
Gate_sinControl(dep, user) == SinResultado

\* Lines 144-162 of dependencies.py: the capability gates.
Gate(dep, user) ==
    CASE dep = "verificar_permiso_cobertura" /\ ~user.permisos.puede_ver_cobertura
           -> Err(403, "No tienes permiso para ver cobertura")
      [] dep = "verificar_permiso_encuestas" /\ ~user.permisos.puede_ver_encuestas
           -> Err(403, "No tienes permiso para ver encuestas")
      [] dep = "verificar_permiso_mensajes" /\ ~user.permisos.puede_enviar_mensajes
           -> Err(403, "No tienes permiso para enviar mensajes")
      [] OTHER -> SinResultado

\* The gate of the endpoint, then the check get_mensajes_recibidos makes in
\* its body (lines 107-112 of whatsapp.py).
Admite(ep, user) ==
    LET g == Gate(Dependencia(ep), user) IN
      IF g.status # 0 THEN g
      ELSE IF ep = "whatsapp/mensajes-recibidos" /\ ~user.permisos.puede_ver_mensajes_recibidos
        THEN Err(403, "No tienes permiso para ver mensajes recibidos")
      ELSE SinResultado

\* The scoped tables and views the query (or queries) of a read endpoint reads.
TablasDe(ep) ==
    CASE ep \in { "cobertura/general", "cobertura/por-instalacion",
                  "cobertura/por-instalacion-fast", "cobertura/por-instalacion-fast/v2" }
           -> { "cobertura_instantanea_agregada", "cr_ppc_dia", "usuario_instalaciones" }
      [] ep = "cobertura/detalle-todas"
           -> { "cobertura_instantanea", "cr_ppc_dia", "usuario_instalaciones" }
      [] ep = "cobertura/detalle" -> { "cobertura_instantanea", "usuario_instalaciones" }
      [] ep \in { "historico/semanal", "historico/por-instalacion" }
           -> { "cr_asistencia_hist_tb", "usuario_instalaciones" }
      [] ep \in { "ppc/total", "ppc/todas-instalaciones", "ppc/por-instalacion" }
           -> { "cr_ppc_dia", "usuario_instalaciones" }
      [] ep = "contactos" -> { "instalacion_contacto", "contactos", "usuario_instalaciones" }
      [] ep = "usuarios-wfsa/instalacion"
           -> { "instalacion_contacto", "contactos", "usuario_instalaciones" }
      [] ep = "whatsapp/mensajes-recibidos" -> { "v_mensajes_recibidos" }
      [] ep = "encuestas/mis-encuestas" -> { "encuestas_solicitudes", "usuario_instalaciones" }
      [] ep = "encuestas/preguntas"
           -> { "encuestas_solicitudes", "encuestas_preguntas", "usuario_instalaciones" }
      [] ep = "encuestas/respuestas"
           -> { "encuestas_solicitudes", "encuestas_respuestas", "encuestas_preguntas" }
      [] OTHER -> {}

\* usuario_contactos: whom each user may contact at each installation.
UsuarioContactos ==
    { [ email_login |-> "ana@cli", instalacion_rol |-> "I1", contacto_id |-> "K1",
        puede_contactar |-> TRUE ],
      [ email_login |-> "ana@cli", instalacion_rol |-> "I1", contacto_id |-> "K4",
        puede_contactar |-> TRUE ],
      [ email_login |-> "ana@cli", instalacion_rol |-> "I2", contacto_id |-> "K3",
        puede_contactar |-> TRUE ],
      [ email_login |-> "ana@cli", instalacion_rol |-> "I2", contacto_id |-> "K2",
        puede_contactar |-> FALSE ] }

\* Lines 30-52 of whatsapp.py: the active contacts the user may contact at the
\* installation.
QueryContactos(user_email, instalacion_rol) ==
    { uc.contacto_id : uc \in { x \in UsuarioContactos :
                                  /\ x.email_login = user_email
                                  /\ x.instalacion_rol = instalacion_rol
                                  /\ x.puede_contactar
                                  /\ Contactos[x.contacto_id].activo } }

\* request.instalaciones of enviar-mensaje; the other endpoints have no body.
Cuerpos(ep) ==
    IF ep = "whatsapp/enviar-mensaje"
      THEN { << >>, << "I1" >>, << "I1", "I2" >>, << "I1", "I1" >> }
      ELSE { << >> }

\* Lines 59-80 of whatsapp.py: the row the INSERT stores; mensaje_id is a fresh
\* uuid, modelled as (request, position, contact).  mensaje and fecha_envio
\* are left out.
MensajeRow(rq, contacto_id) ==
    [ mensaje_id |-> << rq.id, rq.i, contacto_id >>,
      email_usuario |-> rq.user.email, cliente_rol |-> rq.user.cliente_rol,
      instalacion_rol |-> rq.instalaciones[rq.i], contacto_id |-> contacto_id,
      estado |-> "pendiente" ]

\* The Python code that follows a round trip of enviar_mensaje_whatsapp: with
\* nothing left to do the handler returns (lines 89-93).
Avanzar(rq) ==
    IF rq.contactos = {} /\ rq.i = Len(rq.instalaciones)
      THEN [ rq EXCEPT !.pc = "fin", !.result = Err(200, "Mensajes registrados correctamente") ]
      ELSE [ rq EXCEPT !.pc = "enviando" ]

\* A request arrives: the header is checked, the token verified, the account
\* read and checked.
Autenticar(a, ep, body) ==
    /\ request.pc \in { "idle", "fin" }
    /\ nrequests < MaxRequests
    /\ nrequests' = nrequests + 1
    /\ LET r == VerificarUsuario(a, usuarios) IN
         request' = [ SinRequest EXCEPT
            !.id = nrequests + 1, !.authorization = a, !.endpoint = ep,
            !.instalaciones = body, !.result = r,
            !.uid_previo = request.user.uid,
            !.user_data = IF r.status = 0
                            THEN CHOOSE row \in QueryPermisos(usuarios, ExtraerToken(a).email) : TRUE
                            ELSE SinCuenta,
            !.pc = IF r.status = 0 THEN "migrar" ELSE "fin" ]
    /\ UNCHANGED << usuarios, mensajes, varsEncuestas, varsLectura, varsCalculo, varsNotificacion >>

\* The SELECT of verify_firebase_token raises: lines 97-99, 500.
AutenticarFalla(a, ep, body) ==
    /\ request.pc \in { "idle", "fin" }
    /\ nrequests < MaxRequests
    /\ ~HeaderAusente(a) /\ ExtraerToken(a).valido
    /\ nrequests' = nrequests + 1
    /\ request' = [ SinRequest EXCEPT
          !.id = nrequests + 1, !.authorization = a, !.endpoint = ep,
          !.instalaciones = body, !.pc = "fin",
          !.uid_previo = request.user.uid,
          !.result = Err(500, "Error al verificar usuario") ]
    /\ UNCHANGED << usuarios, mensajes, varsEncuestas, varsLectura, varsCalculo, varsNotificacion >>

\* Lines 79-121: the UPDATE of firebase_uid, then the user dict is returned,
\* built from the row the SELECT of this request returned.
Migrar ==
    /\ request.pc = "migrar"
    /\ LET token == ExtraerToken(request.authorization) IN
         /\ usuarios' = UpdateFirebaseUid(usuarios, token.uid, token.email)
         /\ request' = [ request EXCEPT
               !.pc = "handler",
               !.filas_actualizadas = FilasActualizadas(usuarios, token.uid, token.email),
               !.user = UserData(token, request.user_data) ]
    /\ UNCHANGED << nrequests, mensajes, varsEncuestas, varsLectura, varsCalculo, varsNotificacion >>

\* The UPDATE raises: lines 97-99, 500.
MigrarFalla ==
    /\ request.pc = "migrar"
    /\ request' = [ request EXCEPT !.pc = "fin",
                                   !.result = Err(500, "Error al verificar usuario") ]
    /\ UNCHANGED << usuarios, nrequests, mensajes, varsEncuestas, varsLectura, varsCalculo, varsNotificacion >>

\* The permissions store is written from outside the program: the account is
\* deactivated or one of its capabilities is withdrawn, at any moment.
ColumnasRevocables ==
    { "usuario_activo", "puede_ver_cobertura", "puede_ver_encuestas",
      "puede_enviar_mensajes" }
Revocar(email, columna) ==
    /\ usuarios[email][columna]
    /\ usuarios' = [ usuarios EXCEPT ![email][columna] = FALSE ]
    /\ UNCHANGED << request, nrequests, mensajes, varsEncuestas, varsLectura, varsCalculo, varsNotificacion >>

\* GET /api/auth/me: no query.
AuthMe ==
    /\ request.pc = "handler"
    /\ request.endpoint = "auth/me"
    /\ request' = [ request EXCEPT !.pc = "fin", !.result = Err(200, "success") ]
    /\ UNCHANGED << usuarios, nrequests, mensajes, varsEncuestas, varsLectura, varsCalculo, varsNotificacion >>

\* A read endpoint: its gate and checks, then its query.
Consultar ==
    /\ request.pc = "handler"
    /\ request.endpoint \in EndpointsLectura
    /\ LET r == Admite(request.endpoint, request.user) IN
         request' = IF r.status # 0
           THEN [ request EXCEPT !.pc = "fin", !.result = r ]
           ELSE [ request EXCEPT !.pc = "fin", !.result = Err(200, "success"),
                                 !.consultas = TablasDe(request.endpoint) ]
    /\ UNCHANGED << usuarios, nrequests, mensajes, varsEncuestas, varsLectura, varsCalculo, varsNotificacion >>

\* The query of a read endpoint raises: 500.
ConsultarFalla ==
    /\ request.pc = "handler"
    /\ request.endpoint \in EndpointsLectura
    /\ Admite(request.endpoint, request.user).status = 0
    /\ request' = [ request EXCEPT !.pc = "fin",
                                   !.result = Err(500, "Error al consultar BigQuery"),
                                   !.consultas = TablasDe(request.endpoint) ]
    /\ UNCHANGED << usuarios, nrequests, mensajes, varsEncuestas, varsLectura, varsCalculo, varsNotificacion >>

\* POST /api/whatsapp/enviar-mensaje: the gate, then the contacts query of the
\* first installation.
EnviarMensaje ==
    /\ request.pc = "handler"
    /\ request.endpoint = "whatsapp/enviar-mensaje"
    /\ LET r == Admite(request.endpoint, request.user) IN
         request' =
           IF r.status # 0 THEN [ request EXCEPT !.pc = "fin", !.result = r ]
           ELSE IF request.instalaciones = << >> THEN Avanzar(request)
           ELSE Avanzar([ request EXCEPT
                   !.i = 1,
                   !.contactos = QueryContactos(request.user.email, request.instalaciones[1]),
                   !.consultas = { "contactos", "usuario_contactos" } ])
    /\ UNCHANGED << usuarios, nrequests, mensajes, varsEncuestas, varsLectura, varsCalculo, varsNotificacion >>

\* The contacts query of the next installation.
BuscarContactos ==
    /\ request.pc = "enviando"
    /\ request.contactos = {}
    /\ request.i < Len(request.instalaciones)
    /\ request' = Avanzar([ request EXCEPT
          !.i = request.i + 1,
          !.contactos = QueryContactos(request.user.email,
                                       request.instalaciones[request.i + 1]) ])
    /\ UNCHANGED << usuarios, nrequests, mensajes, varsEncuestas, varsLectura, varsCalculo, varsNotificacion >>

\* The INSERT of one message row.
InsertarMensaje(k) ==
    /\ request.pc = "enviando"
    /\ k \in request.contactos
    /\ mensajes' = mensajes \cup { MensajeRow(request, k) }
    /\ request' = Avanzar([ request EXCEPT !.contactos = request.contactos \ { k },
                                           !.enviados = request.enviados + 1 ])
    /\ UNCHANGED << usuarios, nrequests, varsEncuestas, varsLectura, varsCalculo, varsNotificacion >>

\* A query of enviar_mensaje_whatsapp raises: lines 95-96, 500; the rows
\* already inserted stay.
EnviarFalla ==
    /\ \/ request.pc = "enviando"
       \/ /\ request.pc = "handler"
          /\ request.endpoint = "whatsapp/enviar-mensaje"
          /\ Admite(request.endpoint, request.user).status = 0
          /\ request.instalaciones # << >>
    /\ request' = [ request EXCEPT !.pc = "fin", !.contactos = {},
                                   !.result = Err(500, "Error al enviar mensajes") ]
    /\ UNCHANGED << usuarios, nrequests, mensajes, varsEncuestas, varsLectura, varsCalculo, varsNotificacion >>

\* The accounts table: ana's account active or not, never signed in, signed
\* in with this uid or with an older one, with each combination of the flags.
UsuariosIniciales ==
    { [ u \in { "ana@cli" } |-> Cuenta(u, activo, uid, c, e, r) ] :
        activo \in BOOLEAN, uid \in { Nulo, "uid_ana", "uid_viejo" },
        c \in BOOLEAN, e \in BOOLEAN, r \in BOOLEAN }

InitAuth ==
    /\ usuarios \in UsuariosIniciales
    /\ request = SinRequest
    /\ nrequests = 0
    /\ mensajes = {}
    /\ EncuestasFijas
    /\ LecturaFija
    /\ CalculoFijo
    /\ NotificacionFija

NextAuth ==
    \/ \E a \in Headers, ep \in Endpoints : \E body \in Cuerpos(ep) : Autenticar(a, ep, body)
    \/ \E a \in Headers, ep \in Endpoints : \E body \in Cuerpos(ep) : AutenticarFalla(a, ep, body)
    \/ Migrar
    \/ MigrarFalla
    \/ AuthMe
    \/ Consultar
    \/ ConsultarFalla
    \/ EnviarMensaje
    \/ BuscarContactos
    \/ \E k \in DOMAIN Contactos : InsertarMensaje(k)
    \/ EnviarFalla

SpecAuth == InitAuth /\ [][NextAuth]_vars

\* ------------------------------------ requests while the store is written
\* The requests of SpecAuth, fewer of them, with the store written between
\* and during them.
HeadersRevocacion ==
    { SinHeader, [ forma |-> "Bearer", credencial |-> TokenAna ],
      [ forma |-> "Bearer", credencial |-> TokenAnaNuevo ] }
EndpointsRevocacion ==
    { "cobertura/general", "cobertura/por-instalacion-fast", "whatsapp/enviar-mensaje",
      "encuestas/mis-encuestas", "auth/me" }

InitRevocacion ==
    /\ usuarios \in { [ u \in { "ana@cli" } |-> Cuenta(u, TRUE, uid, TRUE, TRUE, TRUE) ] :
                         uid \in { Nulo, "uid_ana", "uid_viejo" } }
    /\ request = SinRequest
    /\ nrequests = 0
    /\ mensajes = {}
    /\ EncuestasFijas
    /\ LecturaFija
    /\ CalculoFijo
    /\ NotificacionFija

NextRevocacion ==
    \/ \E a \in HeadersRevocacion, ep \in EndpointsRevocacion :
          \E body \in Cuerpos(ep) : Autenticar(a, ep, body)
    \/ \E a \in HeadersRevocacion, ep \in EndpointsRevocacion :
          \E body \in Cuerpos(ep) : AutenticarFalla(a, ep, body)
    \/ Migrar
    \/ MigrarFalla
    \/ \E email \in DOMAIN usuarios, columna \in ColumnasRevocables : Revocar(email, columna)
    \/ AuthMe
    \/ Consultar
    \/ ConsultarFalla
    \/ EnviarMensaje
    \/ BuscarContactos
    \/ \E k \in DOMAIN Contactos : InsertarMensaje(k)
    \/ EnviarFalla

SpecRevocacion == InitRevocacion /\ [][NextRevocacion]_vars

\* --------------------------------- properties of resolve and of the gates
\* The failure resolve owes a header over an accounts table: 401 for no header
\* or a token that does not verify, else 404 for an email without a row, else
\* 403 for an inactive account; 0 when it owes none.
C9_Debe(a, tabla) ==
    IF a.forma = "None" \/ a.forma \notin { "Bearer", "sin_esquema" } \/ ~a.credencial.valido
      THEN 401
    ELSE IF a.credencial.email \notin DOMAIN tabla THEN 404
    ELSE IF ~tabla[a.credencial.email].usuario_activo THEN 403
    ELSE 0

\* C9: resolve fails with 401 for an absent header or a token that does not
\* verify, else with 404 for an email without a row, else with 403 for an
\* inactive account; a request that fails so gets no user dict, never reaches
\* its handler and leaves the accounts table as it was, and only a request
\* that passed the three checks writes firebase_uid.
C9_ResolveFalla ==
    [][ /\ request'.id # request.id =>
             LET debe == C9_Debe(request'.authorization, usuarios) IN
               /\ debe = 401 => request'.result.status = 401
               /\ debe \in { 404, 403 } => request'.result.status \in { debe, 500 }
               /\ debe = 0 => request'.result.status \in { 0, 500 }
               /\ request'.result.status # 0 =>
                    /\ request'.pc = "fin"
                    /\ request'.user = SinUsuario
                    /\ usuarios' = usuarios
        /\ usuarios' # usuarios =>
             /\ request.pc = "migrar"
             /\ C9_Debe(request.authorization, usuarios) = 0
        /\ request'.user # SinUsuario =>
             C9_Debe(request'.authorization, usuarios) = 0
      ]_vars

\* C9 witness: a request with a verified token of an inactive account ended
\* with 403 and no user dict, and the account still lacks the token's uid.
C9_Witness ==
    /\ request.pc = "fin"
    /\ request.result.status = 403
    /\ request.authorization.credencial = TokenAna
    /\ request.user = SinUsuario
    /\ ~usuarios["ana@cli"].usuario_activo
    /\ usuarios["ana@cli"].firebase_uid # TokenAna.uid

\* The endpoints behind a capability gate and the flag of each.
C10_Flag(ep) ==
    CASE ep = "whatsapp/enviar-mensaje" -> "puede_enviar_mensajes"
      [] ep = "whatsapp/mensajes-recibidos" -> "puede_ver_mensajes_recibidos"
      [] OTHER -> "puede_ver_cobertura"
C10_Gated ==
    { "cobertura/general", "cobertura/por-instalacion", "cobertura/detalle-todas",
      "cobertura/detalle", "historico/semanal", "historico/por-instalacion",
      "ppc/total", "ppc/todas-instalaciones", "ppc/por-instalacion",
      "whatsapp/enviar-mensaje", "whatsapp/mensajes-recibidos" }

\* C10: a resolved request to a gated endpoint whose flag is false ends with
\* 403 in its next step, having issued no scoped query and no write: its
\* query log is empty and mensajes_whatsapp holds no row of it.
C10_GateAntesDeConsultar ==
    [][ ( /\ request.pc = "handler"
          /\ request.endpoint \in C10_Gated
          /\ ~request.user.permisos[C10_Flag(request.endpoint)] )
        => /\ request'.pc = "fin"
           /\ request'.result.status = 403
           /\ request'.consultas = {}
           /\ mensajes' = mensajes
           /\ \A m \in mensajes' : m.mensaje_id[1] # request.id
      ]_vars

\* C10 witness: enviar-mensaje with installations to write to, from a resolved
\* principal without puede_enviar_mensajes, ended with 403.
C10_Witness ==
    /\ request.pc = "fin"
    /\ request.endpoint = "whatsapp/enviar-mensaje"
    /\ request.instalaciones # << >>
    /\ request.user.email = "ana@cli"
    /\ ~request.user.permisos.puede_enviar_mensajes
    /\ request.result.status = 403
    /\ request.consultas = {}
    /\ \A m \in mensajes : m.mensaje_id[1] # request.id

\* ---------------------------------------------------------------------
\* C11: when the request before this one resolved the same verified uid,
\* the UPDATE of this request's resolve writes no row: the accounts table,
\* firebase_uid and every other column, is left as it was.
C11_MigracionIdempotente ==
    [][ ( /\ request.pc = "migrar"
          /\ request'.pc = "handler"
          /\ request.uid_previo = ExtraerToken(request.authorization).uid )
        => ( /\ usuarios' = usuarios
             /\ request'.filas_actualizadas = 0 ) ]_vars

\* A second request in a row resolved with the same uid as the first.
C11_Witness ==
    /\ request.id = 2
    /\ request.pc = "handler"
    /\ request.uid_previo # Nulo
    /\ request.uid_previo = request.user.uid
    /\ request.filas_actualizadas = 0
    /\ usuarios[request.user.email].firebase_uid = request.user.uid

\* --------------------------------------- calcular_estado_semaforo, on its own
MaxEvaluaciones == 2

\* What the environment may configure instead, a pair in the wrong order included.
Umbrales ==
    { UmbralesPorDefecto, [ verde |-> 90, amarillo |-> 70 ],
      [ verde |-> 80, amarillo |-> 80 ], [ verde |-> 70, amarillo |-> 90 ] }

\* The percentages classified: each side of every threshold, and the ends.
Porcentajes ==
    { 0, 6999, 7000, 7999, 8000, 8001, 8999, 9000, 9499, 9500, 9501, 10000 }

\* One call of the function: the percentage and the colour it returned are
\* kept, to compare calls with each other.
Clasificar(porcentaje) ==
    /\ calculo.fn = "calcular_estado_semaforo"
    /\ Len(calculo.salida) < MaxEvaluaciones
    /\ calculo' = [ calculo EXCEPT !.salida =
          Append(@, [ porcentaje |-> porcentaje,
                      estado |-> calcular_estado_semaforo(porcentaje) ]) ]
    /\ UNCHANGED << varsEncuestas, varsLectura, varsAuth, varsNotificacion >>

\* The process starts: config.py reads the thresholds.
InitSemaforo ==
    /\ calculo \in { [ fn |-> "calcular_estado_semaforo", entrada |-> u, salida |-> << >> ] :
                       u \in Umbrales }
    /\ EncuestasFijas
    /\ LecturaFija
    /\ AuthFija
    /\ NotificacionFija

NextSemaforo == \E porcentaje \in Porcentajes : Clasificar(porcentaje)

SpecSemaforo == InitSemaforo /\ [][NextSemaforo]_vars

\* The bands, from worst to best.
Banda(estado) ==
    CASE estado = "ROJO" -> 0
      [] estado = "AMARILLO" -> 1
      [] estado = "VERDE" -> 2
      [] OTHER -> -1

\* C12: every call returns VERDE exactly for a percentage at or above the
\* green threshold, AMARILLO exactly for one below it and at or above the
\* yellow threshold, ROJO otherwise and never GRIS; with the defaults 95.00
\* is VERDE, 94.99 and 80.00 are AMARILLO and 79.99 is ROJO; and of two
\* calls the one with the lower percentage never gets the better band.
C12_Semaforo ==
    calculo.fn = "calcular_estado_semaforo" =>
      /\ \A k \in DOMAIN calculo.salida :
           LET p == calculo.salida[k].porcentaje
               e == calculo.salida[k].estado
               verde == calculo.entrada.verde * 100
               amarillo == calculo.entrada.amarillo * 100
           IN /\ e \in { "VERDE", "AMARILLO", "ROJO" }
              /\ e = "VERDE" <=> p >= verde
              /\ e = "AMARILLO" <=> (p < verde /\ p >= amarillo)
              /\ e = "ROJO" <=> (p < verde /\ p < amarillo)
              /\ calculo.entrada = UmbralesPorDefecto =>
                   /\ p = 9500 => e = "VERDE"
                   /\ p = 9499 => e = "AMARILLO"
                   /\ p = 8000 => e = "AMARILLO"
                   /\ p = 7999 => e = "ROJO"
      /\ \A j, k \in DOMAIN calculo.salida :
           calculo.salida[j].porcentaje <= calculo.salida[k].porcentaje =>
             Banda(calculo.salida[j].estado) <= Banda(calculo.salida[k].estado)

\* With the defaults, 94.99 was classified AMARILLO and then 95.00 VERDE.
C12_Witness ==
    /\ calculo.fn = "calcular_estado_semaforo"
    /\ calculo.entrada = UmbralesPorDefecto
    /\ Len(calculo.salida) = 2
    /\ calculo.salida[1] = [ porcentaje |-> 9499, estado |-> "AMARILLO" ]
    /\ calculo.salida[2] = [ porcentaje |-> 9500, estado |-> "VERDE" ]

\* ---------------------------------------------------------------------
\* The installations whose coverage rows the caller may see.
FilasVisibles(u) ==
    { f \in CoberturaAgregada : \E g \in usuario_inst :
        /\ g.email_login = u /\ g.puede_ver
        /\ g.cliente_rol = f.cliente_rol /\ g.instalacion_rol = f.instalacion_rol }

\* C13: when the guards required over the rows the caller may see add up to
\* zero, because the rows add up to zero or because there is no such row,
\* the general coverage answers 200 with porcentaje_cobertura_general 0 and
\* estado_semaforo GRIS.
C13_GrisSinGuardias ==
    ( /\ vista.endpoint = "cobertura/general"
      /\ vista.result.status = 200
      /\ \A f \in FilasVisibles(vista.user) : f.total_guardias_requeridos = 0 )
    => ( /\ vista.cuerpo.porcentaje_cobertura_general = 0
         /\ vista.cuerpo.estado_semaforo = "GRIS" )

\* ------------------------------------ obtener_mis_encuestas: periodos_validos
\* The dates datetime.now() may give: the first and the last year of
\* datetime, a turn of century and three years in a row, every month.
Years == { 1, 1999, 2000, 2024, 2025, 2026, 9999 }
Months == 1..12

\* f"{n:0{ancho}d}" of a number that is not negative: its decimal digits,
\* padded with zeros on the left up to ancho characters.
RECURSIVE Formato(_, _)
Formato(n, ancho) ==
    IF n < 10 /\ ancho <= 1 THEN << n >>
    ELSE Append(Formato(n \div 10, ancho - 1), n % 10)

\* f"{year:04d}{month:02d}".
Periodo(year, month) == Formato(year, 4) \o Formato(month, 2)

periodos_validos_sinEnero(year_actual, month_actual) ==
    IF month_actual % 2 = 0
      THEN << Periodo(year_actual, month_actual),
              IF month_actual = 2 THEN Periodo(year_actual - 1, 12)
                                  ELSE Periodo(year_actual, month_actual - 2) >>
      ELSE IF month_actual = 1
        THEN << Periodo(year_actual, 12), Periodo(year_actual, 10) >>
        ELSE LET mes_par_anterior == month_actual - 1 IN
               << Periodo(year_actual, mes_par_anterior),
                  IF mes_par_anterior = 2 THEN Periodo(year_actual - 1, 12)
                                          ELSE Periodo(year_actual, mes_par_anterior - 2) >>

\* encuestas.py 34-58: [periodo_en_curso, periodo_anterior].
periodos_validos(year_actual, month_actual) ==
    IF month_actual % 2 = 0
      THEN << Periodo(year_actual, month_actual),
              IF month_actual = 2 THEN Periodo(year_actual - 1, 12)
                                  ELSE Periodo(year_actual, month_actual - 2) >>
      ELSE IF month_actual = 1
        THEN << Periodo(year_actual - 1, 12), Periodo(year_actual - 1, 10) >>
        ELSE LET mes_par_anterior == month_actual - 1 IN
               << Periodo(year_actual, mes_par_anterior),
                  IF mes_par_anterior = 2 THEN Periodo(year_actual - 1, 12)
                                          ELSE Periodo(year_actual, mes_par_anterior - 2) >>

\* mis-encuestas computes its two periods from the date of the call.
CalcularPeriodos ==
    /\ calculo.fn = "periodos_validos"
    /\ calculo.salida = << >>
    /\ calculo' = [ calculo EXCEPT !.salida =
                      periodos_validos(calculo.entrada.year, calculo.entrada.month) ]
    /\ UNCHANGED << varsEncuestas, varsLectura, varsAuth, varsNotificacion >>

\* The next call: another date.
OtraFecha(year, month) ==
    /\ calculo.fn = "periodos_validos"
    /\ calculo.salida # << >>
    /\ calculo' = [ calculo EXCEPT !.entrada = [ year |-> year, month |-> month ],
                                   !.salida = << >> ]
    /\ UNCHANGED << varsEncuestas, varsLectura, varsAuth, varsNotificacion >>

InitPeriodos ==
    /\ calculo \in { [ fn |-> "periodos_validos",
                       entrada |-> [ year |-> y, month |-> m ], salida |-> << >> ] :
                     y \in Years, m \in Months }
    /\ EncuestasFijas
    /\ LecturaFija
    /\ AuthFija
    /\ NotificacionFija

NextPeriodos ==
    \/ CalcularPeriodos
    \/ \E y \in Years, m \in Months : OtraFecha(y, m)

SpecPeriodos == InitPeriodos /\ [][NextPeriodos]_vars

\* Months counted from year 0: the month before January of year y is
\* December of year y - 1.
MesAbsoluto(year, month) == 12 * year + (month - 1)
YearDe(n) == n \div 12
MonthDe(n) == (n % 12) + 1
\* The most recent even month at or before (year, month).
MesParReciente(year, month) ==
    IF month % 2 = 0 THEN MesAbsoluto(year, month) ELSE MesAbsoluto(year, month) - 1

\* C14: for every year and month the current period is the key of the most
\* recent even month at or before the date and the preceding period is the
\* key of the month two months before that one; both are keys of even months
\* and they differ.  2025-01 gives 202412 and 202410, 2025-03 gives 202502
\* and 202412.
C14_Periodos ==
    (calculo.fn = "periodos_validos" /\ calculo.salida # << >>) =>
      LET y == calculo.entrada.year
          m == calculo.entrada.month
          en_curso == MesParReciente(y, m)
          periodo_en_curso == calculo.salida[1]
          periodo_anterior == calculo.salida[2]
      IN /\ Len(calculo.salida) = 2
         /\ periodo_en_curso = Periodo(YearDe(en_curso), MonthDe(en_curso))
         /\ periodo_anterior = Periodo(YearDe(en_curso - 2), MonthDe(en_curso - 2))
         /\ MonthDe(en_curso) % 2 = 0
         /\ MonthDe(en_curso - 2) % 2 = 0
         /\ Len(periodo_en_curso) = 6 /\ Len(periodo_anterior) = 6
         /\ (10 * periodo_en_curso[5] + periodo_en_curso[6]) \in { 2, 4, 6, 8, 10, 12 }
         /\ (10 * periodo_anterior[5] + periodo_anterior[6]) \in { 2, 4, 6, 8, 10, 12 }
         /\ periodo_en_curso # periodo_anterior
         /\ (y = 2025 /\ m = 1) =>
              /\ periodo_en_curso = << 2, 0, 2, 4, 1, 2 >>
              /\ periodo_anterior = << 2, 0, 2, 4, 1, 0 >>
         /\ (y = 2025 /\ m = 3) =>
              /\ periodo_en_curso = << 2, 0, 2, 5, 0, 2 >>
              /\ periodo_anterior = << 2, 0, 2, 4, 1, 2 >>

\* A call in January 2025: both periods fall in the year before.
C14_Witness ==
    /\ calculo.fn = "periodos_validos"
    /\ calculo.entrada = [ year |-> 2025, month |-> 1 ]
    /\ calculo.salida = << << 2, 0, 2, 4, 1, 2 >>, << 2, 0, 2, 4, 1, 0 >> >>

\* ---------------------------------------------------------------------
\* The rows of mensajes_whatsapp the request in flight has inserted.
MensajesDe(rq) == { m \in mensajes : m.mensaje_id[1] = rq.id }

\* C15: when enviar-mensaje answers 200, for each installation of the
\* request and each active contact the caller may contact there the table
\* holds exactly one row of this request, with estado pendiente, and
\* total_enviados is the number of rows the request inserted.
C15_UnaFilaPorContacto ==
    ( /\ request.endpoint = "whatsapp/enviar-mensaje"
      /\ request.pc = "fin"
      /\ request.result.status = 200 )
    => /\ \A n \in DOMAIN request.instalaciones :
            \A k \in QueryContactos(request.user.email, request.instalaciones[n]) :
               Cardinality({ m \in MensajesDe(request) :
                               /\ m.instalacion_rol = request.instalaciones[n]
                               /\ m.contacto_id = k
                               /\ m.estado = "pendiente" }) = 1
       /\ request.enviados = Cardinality(MensajesDe(request))

\* C15, its last part: no step updates or deletes a row of mensajes_whatsapp.
C15_FilasNuncaModificadas == [][ mensajes \subseteq mensajes' ]_vars

\* ---------------------------------------------------------------------
\* The call that inserted the row has answered (the rows the tables start
\* with were inserted by calls that have).
InsercionTerminada(r) == r.respuesta_id[1] = 0 \/ calls[r.respuesta_id[1]].pc = "fin"

\* C16: in every state encuestas_respuestas holds at most one row for each
\* (encuesta_id, pregunta_id), and every row whose inserting call has
\* finished belongs to a survey that is completada.
C16_UnaRespuestaPorPregunta ==
    /\ \A r1, r2 \in respuestas :
         (r1.encuesta_id = r2.encuesta_id /\ r1.pregunta_id = r2.pregunta_id) => r1 = r2
    /\ \A r \in respuestas :
         InsercionTerminada(r) => solicitudes[r.encuesta_id].estado = "completada"

\* C16, its second part alone.
C16_RespuestasDeCompletadas ==
    \A r \in respuestas :
       InsercionTerminada(r) => solicitudes[r.encuesta_id].estado = "completada"

\* ---------------------------------------------------------------------
\* A request arrives in this step and its SELECT on the store does not raise.
C17_Resuelve ==
    /\ request'.id = request.id + 1
    /\ request'.result # Err(500, "Error al verificar usuario")
\* The flag the stored row must hold for the endpoint.
C17_Flag(ep) ==
    CASE ep = "whatsapp/enviar-mensaje" -> "puede_enviar_mensajes"
      [] ep = "whatsapp/mensajes-recibidos" -> "puede_ver_mensajes_recibidos"
      [] OTHER -> "puede_ver_cobertura"

\* C17: every request reads the account from the store as it is when the
\* request is resolved, whatever the requests before it read: one resolved
\* while usuario_activo is false ends 403; one that passes carries the row of
\* the store of that moment, and on a gated endpoint ends 403 in its handler
\* step when that row has the flag false; once the user dict is built the
\* request keeps it, whatever is written to the store meanwhile.
C17_SinCache ==
    [][ LET a == request'.authorization
            token == ExtraerToken(a)
        IN /\ ( /\ C17_Resuelve
                /\ ~HeaderAusente(a) /\ token.valido
                /\ token.email \in DOMAIN usuarios
                /\ ~usuarios[token.email].usuario_activo )
              => (request'.pc = "fin" /\ request'.result.status = 403)
           /\ (C17_Resuelve /\ request'.pc = "migrar")
              => request'.user_data = usuarios[token.email]
           /\ (request.pc = "migrar" /\ request'.pc = "handler")
              => request'.user = UserData(token, request.user_data)
           /\ ( /\ request.pc = "handler" /\ request' # request
                /\ request.endpoint \in C10_Gated
                /\ ~request.user_data[C17_Flag(request.endpoint)] )
              => (request'.pc = "fin" /\ request'.result.status = 403)
           /\ (request.pc \in { "handler", "enviando" } /\ request'.id = request.id)
              => (request'.user = request.user /\ request'.user_data = request.user_data)
      ]_vars

\* The first request was resolved and served; the account was deactivated;
\* the second request, with the same token, ended 403.
C17_Witness ==
    /\ request.id = 2
    /\ request.uid_previo = "uid_ana"
    /\ request.authorization = [ forma |-> "Bearer", credencial |-> TokenAna ]
    /\ ~usuarios["ana@cli"].usuario_activo
    /\ request.pc = "fin"
    /\ request.result = Err(403, "Usuario inactivo")

\* A request resolved with the flag set is served although the flag was
\* cleared before its handler ran.
C17_WitnessMismaRequest ==
    /\ request.pc = "fin"
    /\ request.endpoint = "cobertura/general"
    /\ request.result.status = 200
    /\ request.user.permisos.puede_ver_cobertura
    /\ ~usuarios["ana@cli"].puede_ver_cobertura

\* ---------------------------------------------------------------------
\* The endpoints that serve coverage data and survey data, and the flag of
\* the permissions each kind is to be gated on.
C18_Cobertura ==
    EndpointsCobertura \cup
    { "cobertura/por-instalacion-fast", "cobertura/por-instalacion-fast/v2" }
C18_Flag(ep) ==
    IF ep \in EndpointsEncuestas THEN "puede_ver_encuestas" ELSE "puede_ver_cobertura"

\* C18: a resolved request to a coverage or survey endpoint from a principal
\* whose matching flag is false ends 403, having issued no scoped query.
C18_SinFlagSinFilas ==
    ( /\ request.pc = "fin"
      /\ request.user # SinUsuario
      /\ request.endpoint \in C18_Cobertura \cup EndpointsEncuestas
      /\ ~request.user.permisos[C18_Flag(request.endpoint)] )
    => ( /\ request.result.status = 403
         /\ request.consultas = {} )

\* ---------------------------------------------------------------------
\* cliente_rol and instalacion_rol of each row of encuestas_solicitudes
\* (columns the program never writes): both surveys are of installation I1
\* of tenant CLI_A.
InstalacionDeEncuesta == [ e \in Existentes |-> << "CLI_A", "I1" >> ]

\* The caller holds a puede_ver grant on the installation of the survey.
TieneGrant(email, e) ==
    \E g \in usuario_inst :
       /\ g.email_login = email /\ g.puede_ver
       /\ << g.cliente_rol, g.instalacion_rol >> = InstalacionDeEncuesta[e]

\* C19: a call of responder on a shared survey by a principal with no
\* puede_ver grant on the survey's installation is refused, and stores no
\* answer and completes nothing.
C19_ResponderSoloConGrant ==
    \A c \in Calls :
       LET e == calls[c].encuesta_id IN
         ( /\ calls[c].pc # "idle"
           /\ e \in Existentes
           /\ solicitudes[e].modo = "compartida"
           /\ ~TieneGrant(calls[c].user, e) )
         => ( /\ calls[c].result.status # 200
              /\ RowsOf(c) = {} )

\* C19, for the answers: respuestas of a shared survey is refused to a
\* principal with no puede_ver grant on the survey's installation.
C19_RespuestasSoloConGrant ==
    ( /\ vista.endpoint = "encuestas/respuestas"
      /\ vista.param \in Existentes
      /\ solicitudes[vista.param].modo = "compartida"
      /\ ~TieneGrant(vista.user, vista.param) )
    => ( vista.result.status # 200 /\ vista.filas = {} )

\* ---------------------------------------------------- obtener_mis_encuestas
\* encuestas_solicitudes as the listing reads it: for each of five period
\* keys (an odd month among them) and each installation, a shared survey
\* and one addressed to each client.  The older ones are completada.
PeriodosListado ==
    { Periodo(2024, 10), Periodo(2024, 12), Periodo(2025, 1), Periodo(2025, 2),
      Periodo(2025, 4) }
\* fecha_limite of the surveys of a period, as a month count: the end of the
\* month that follows the period.
FechaLimiteDe(p) ==
    MesAbsoluto(1000 * p[1] + 100 * p[2] + 10 * p[3] + p[4], 10 * p[5] + p[6]) + 1
SolicitudesListado ==
    { [ encuesta_id |-> << p, i, d >>, periodo |-> p,
        cliente_rol |-> i[1], instalacion_rol |-> i[2],
        modo |-> IF d = Nulo THEN "compartida" ELSE "individual",
        email_destinatario |-> d,
        estado |-> IF p = Periodo(2024, 10) THEN "completada" ELSE "pendiente",
        fecha_limite |-> FechaLimiteDe(p),
        respondido_por_email |->
            IF p # Periodo(2024, 10) THEN Nulo
            ELSE IF d = Nulo THEN "beto@cli" ELSE d ] :
      p \in PeriodosListado, i \in Instalaciones, d \in { Nulo, "ana@cli", "beto@cli" } }

\* The dates of the calls.
FechasListado == { [ year |-> 2025, month |-> m ] : m \in 1..4 }

\* Lines 65-70: WITH mis_instalaciones AS (SELECT DISTINCT cliente_rol,
\* instalacion_rol FROM usuario_instalaciones WHERE email_login = @user_email
\* AND puede_ver = TRUE).
MisInstalaciones(ui, user_email) ==
    { << g.cliente_rol, g.instalacion_rol >> :
        g \in { x \in ui : x.email_login = user_email /\ x.puede_ver } }

QueryMisEncuestas_sinDestinatario(tabla, ui, user_email, es_wfsa, periodos) ==
    { s \in tabla :
        /\ << s.cliente_rol, s.instalacion_rol >> \in MisInstalaciones(ui, user_email)
        /\ \E n \in DOMAIN periodos : s.periodo = periodos[n] }

\* Lines 63-124: the query of the WFSA branch and that of the other branch.
QueryMisEncuestas(tabla, ui, user_email, es_wfsa, periodos) ==
    IF es_wfsa
      THEN { s \in tabla :
               /\ << s.cliente_rol, s.instalacion_rol >> \in MisInstalaciones(ui, user_email)
               /\ \E n \in DOMAIN periodos : s.periodo = periodos[n] }
      ELSE { s \in tabla :
               /\ << s.cliente_rol, s.instalacion_rol >> \in MisInstalaciones(ui, user_email)
               /\ \E n \in DOMAIN periodos : s.periodo = periodos[n]
               /\ \/ s.modo = "compartida"
                  \/ (s.modo = "individual" /\ s.email_destinatario = user_email) }

\* Lines 149-188: the entry of one survey in the response.
EncuestaData(row, user_email, es_wfsa) ==
    [ encuesta_id |-> row.encuesta_id, periodo |-> row.periodo, modo |-> row.modo,
      estado |-> row.estado, email_destinatario |-> row.email_destinatario,
      fecha_limite |-> row.fecha_limite,
      puede_responder |->
          /\ row.estado = "pendiente"
          /\ \/ row.modo = "compartida"
             \/ (row.modo = "individual" /\ row.email_destinatario = user_email),
      puede_ver_respuestas |->
          /\ row.estado = "completada"
          /\ \/ es_wfsa
             \/ row.modo = "compartida"
             \/ (row.modo = "individual" /\ row.email_destinatario = user_email) ]

\* Lines 134-204: the rows grouped by instalacion_rol, with the counters of
\* each group (cliente_rol and fecha_vencimiento_proxima are left out).
Agrupar(results, user_email, es_wfsa) ==
    { [ instalacion_rol |-> inst_key,
        total_encuestas |-> Cardinality({ r \in results : r.instalacion_rol = inst_key }),
        respondidas |-> Cardinality({ r \in results : r.instalacion_rol = inst_key
                                                      /\ r.estado = "completada" }),
        pendientes |-> Cardinality({ r \in results : r.instalacion_rol = inst_key
                                                     /\ r.estado = "pendiente" }),
        encuestas |-> { EncuestaData(r, user_email, es_wfsa) :
                          r \in { x \in results : x.instalacion_rol = inst_key } } ] :
      inst_key \in { r.instalacion_rol : r \in results } }

\* GET /api/encuestas/mis-encuestas.
MisEncuestas(u) ==
    /\ calculo.fn = "obtener_mis_encuestas"
    /\ LET es_wfsa == Principals[u].rol_id \in RolesWfsaListado
           periodos == periodos_validos(calculo.entrada.year, calculo.entrada.month)
           results == QueryMisEncuestas(SolicitudesListado, usuario_inst, u, es_wfsa, periodos)
       IN /\ calculo' = [ calculo EXCEPT !.salida = periodos ]
          /\ vista' = Respuesta("encuestas/mis-encuestas", u, Nulo, Agrupar(results, u, es_wfsa))
    /\ UNCHANGED << varsEncuestas, usuario_inst, varsAuth, varsNotificacion >>

\* The query raises: lines 210-212, 500.
MisEncuestasFalla(u) ==
    /\ calculo.fn = "obtener_mis_encuestas"
    /\ calculo' = [ calculo EXCEPT !.salida =
                      periodos_validos(calculo.entrada.year, calculo.entrada.month) ]
    /\ vista' = [ endpoint |-> "encuestas/mis-encuestas", user |-> u, param |-> Nulo,
                  result |-> Err(500, "Error al obtener encuestas"), filas |-> {},
                  cuerpo |-> SinCuerpo, instalaciones |-> {} ]
    /\ UNCHANGED << varsEncuestas, usuario_inst, varsAuth, varsNotificacion >>

\* The callers of the listing: a client and one principal of each WFSA role;
\* the grants of the caller are any, those of the others are the fixed ones.
UsuariosListado == { "ana@cli", "sup@wfsa", "adm@wfsa", "sub@wfsa", "jefe@wfsa" }
UsuarioInstListado ==
    UNION { { { Grant(u, i, f[i] = "ver") : i \in { j \in Instalaciones : f[j] # "sin" } }
                \cup { g \in UsuarioInstFijo : g.email_login # u } :
              f \in [ Instalaciones -> { "sin", "ver", "oculta" } ] } :
            u \in UsuariosListado }

InitListado ==
    /\ usuario_inst \in UsuarioInstListado
    /\ vista = SinVista
    /\ calculo \in { [ fn |-> "obtener_mis_encuestas", entrada |-> d, salida |-> << >> ] :
                       d \in FechasListado }
    /\ EncuestasFijas
    /\ AuthFija
    /\ NotificacionFija

NextListado ==
    \/ \E u \in UsuariosListado : MisEncuestas(u)
    \/ \E u \in UsuariosListado : MisEncuestasFalla(u)

SpecListado == InitListado /\ [][NextListado]_vars

\* The surveys a response of the listing carries.
EncuestasDevueltas == UNION { g.encuestas : g \in vista.filas }

\* C20: the listing returns the surveys of encuestas_solicitudes whose
\* periodo is the key of the most recent even month or of the one two months
\* before it, whose installation the caller holds a puede_ver grant on, and
\* that are shared, or individual with the caller holding a WFSA role or
\* being the recipient; those and no other.
C20_MisEncuestasExactas ==
    (vista.endpoint = "encuestas/mis-encuestas" /\ vista.result.status = 200) =>
      LET u == vista.user
          en_curso == MesParReciente(calculo.entrada.year, calculo.entrada.month)
          claves == { Periodo(YearDe(en_curso), MonthDe(en_curso)),
                      Periodo(YearDe(en_curso - 2), MonthDe(en_curso - 2)) }
          debidas == { s \in SolicitudesListado :
                         /\ s.periodo \in claves
                         /\ \E g \in usuario_inst :
                              /\ g.email_login = u /\ g.puede_ver
                              /\ g.cliente_rol = s.cliente_rol
                              /\ g.instalacion_rol = s.instalacion_rol
                         /\ \/ s.modo = "compartida"
                            \/ /\ s.modo = "individual"
                               /\ \/ Principals[u].rol_id \in
                                       { "ADMIN_WFSA", "SUBGERENTE_WFSA", "JEFE_WFSA",
                                         "SUPERVISOR_WFSA" }
                                  \/ s.email_destinatario = u }
      IN { e.encuesta_id : e \in EncuestasDevueltas } = { s.encuesta_id : s \in debidas }

\* A client with a grant on (CLI_A, I1) alone lists in March 2025: the shared
\* surveys and her own of 202502 and 202412 there, and not those of beto, of
\* other periods or of other installations.
C20_Witness ==
    /\ vista.endpoint = "encuestas/mis-encuestas"
    /\ vista.result.status = 200
    /\ vista.user = "ana@cli"
    /\ calculo.entrada = [ year |-> 2025, month |-> 3 ]
    /\ { e.encuesta_id : e \in EncuestasDevueltas } =
         { << p, << "CLI_A", "I1" >>, d >> :
             p \in { Periodo(2025, 2), Periodo(2024, 12) }, d \in { Nulo, "ana@cli" } }

\* ---------------------------------------------------------------------
\* C21: a request whose account was found and active (its row was read) is
\* never answered with the error of the resolve, whether or not the UPDATE
\* of firebase_uid succeeds: the failure of that write is not turned into
\* an error response.
C21_MigracionSinError ==
    request.user_data # SinCuenta =>
      request.result # Err(500, "Error al verificar usuario")

\* ---------------------------------------------------------------------
\* C22: every entry of the per-installation coverage endpoints whose
\* total_guardias_requeridos is zero carries estado_semaforo GRIS; such a row
\* is never classified ROJO, AMARILLO or VERDE from a substituted 0.
C22_GrisPorInstalacion ==
    \A i \in vista.instalaciones :
      i.total_guardias_requeridos = 0 => i.estado_semaforo = "GRIS"


\* ---------------------------------------------------------------------
\* POST /api/fcm/send-message-notification (fcm.py 172-346).
\* TABLE_USUARIOS left-joined to v_permisos_usuarios, in the order the query
\* returns the rows: rol_id and usuario_activo are NULL for a user without a
\* row in the view.
UsuariosFcm ==
    << [ email_login |-> "ana@cli", fcm_token |-> "tok_ana", firebase_uid |-> "uid_ana",
         rol_id |-> "CLIENTE", usuario_activo |-> "TRUE" ],
       [ email_login |-> "beto@cli", fcm_token |-> "", firebase_uid |-> "uid_beto",
         rol_id |-> "CLIENTE", usuario_activo |-> "TRUE" ],
       [ email_login |-> "sup@wfsa", fcm_token |-> "tok_sup", firebase_uid |-> "uid_sup",
         rol_id |-> "SUPERVISOR_WFSA", usuario_activo |-> "TRUE" ],
       [ email_login |-> "adm@wfsa", fcm_token |-> "tok_adm", firebase_uid |-> "uid_adm",
         rol_id |-> "ADMIN_WFSA", usuario_activo |-> "TRUE" ],
       [ email_login |-> "jefe@wfsa", fcm_token |-> "tok_jefe", firebase_uid |-> "uid_jefe",
         rol_id |-> "JEFE_WFSA", usuario_activo |-> "FALSE" ],
       [ email_login |-> "sub@wfsa", fcm_token |-> Nulo, firebase_uid |-> "uid_sub",
         rol_id |-> "SUBGERENTE_WFSA", usuario_activo |-> "TRUE" ],
       [ email_login |-> "nuevo@cli", fcm_token |-> "tok_nuevo", firebase_uid |-> Nulo,
         rol_id |-> Nulo, usuario_activo |-> Nulo ] >>

\* The bodies a caller sends: sender_id, visible_para_cliente and
\* participant_user_ids (empty: the field is absent or an empty list).
Remitentes == { "uid_ana", "uid_sup", "uid_adm" }
Participantes ==
    { {}, { "uid_ana", "uid_sup" }, { "uid_ana", "uid_sup", "uid_adm", "uid_jefe" },
      { "uid_beto" } }

\* Lines 196-243: the two queries; the second has no participant filter.
QueryTokens(sender_id, participant_user_ids) ==
    LET Where(u) ==
          /\ u.fcm_token # Nulo
          /\ u.fcm_token # ""
          /\ u.usuario_activo \in { "TRUE", Nulo }
          /\ u.firebase_uid # Nulo
          /\ u.firebase_uid # sender_id
          /\ participant_user_ids # {} => u.firebase_uid \in participant_user_ids
    IN SelectSeq(UsuariosFcm, Where)

\* Lines 249-260: the tokens kept from the rows.
RECURSIVE FiltrarTokens(_, _)
FiltrarTokens(results, visible_para_cliente) ==
    IF results = << >> THEN << >>
    ELSE LET row == Head(results)
             resto == FiltrarTokens(Tail(results), visible_para_cliente)
         IN IF row.fcm_token \in { Nulo, "" } THEN resto
            ELSE IF ~visible_para_cliente /\ row.rol_id = "CLIENTE" THEN resto
            ELSE << row.fcm_token >> \o resto

\* Lines 262-268: the response when no token is left.
RespuestaSinTokens ==
    [ success |-> TRUE, message |-> "No hay tokens FCM disponibles", sent_count |-> 0,
      failed_count |-> SinNumero, total_tokens |-> SinNumero ]

\* The request arrives; lines 181-283 run up to the loop.
SendMessageNotification(sender_id, visible_para_cliente, participant_user_ids) ==
    /\ notificacion.pc \in { "idle", "fin" }
    /\ LET tokens == FiltrarTokens(QueryTokens(sender_id, participant_user_ids),
                                   visible_para_cliente)
       IN notificacion' =
            [ pc |-> IF tokens = << >> THEN "fin" ELSE "enviando",
              sender_id |-> sender_id, visible_para_cliente |-> visible_para_cliente,
              participant_user_ids |-> participant_user_ids,
              tokens |-> tokens, idx |-> 0, success_count |-> 0, failure_count |-> 0,
              errors |-> << >>, enviados |-> << >>,
              response |-> IF tokens = << >> THEN RespuestaSinTokens ELSE SinRespuesta ]
    /\ UNCHANGED << varsEncuestas, varsLectura, varsAuth, varsCalculo >>

\* The query raises: lines 333-346, answered with success false.
SendMessageNotificationFalla(sender_id, visible_para_cliente, participant_user_ids) ==
    /\ notificacion.pc \in { "idle", "fin" }
    /\ notificacion' =
         [ SinNotificacion EXCEPT
             !.pc = "fin", !.sender_id = sender_id,
             !.visible_para_cliente = visible_para_cliente,
             !.participant_user_ids = participant_user_ids,
             !.response = [ success |-> FALSE, message |-> "Error enviando notificaciones",
                            sent_count |-> 0, failed_count |-> SinNumero,
                            total_tokens |-> SinNumero ] ]
    /\ UNCHANGED << varsEncuestas, varsLectura, varsAuth, varsCalculo >>

\* Lines 310-314 changed: the exception of one delivery ends the request as
\* the handler of lines 333-346 does.
ExceptEnvio_propaga(n) ==
    [ n EXCEPT !.pc = "fin",
               !.response = [ success |-> FALSE, message |-> "Error enviando notificaciones",
                              sent_count |-> 0, failed_count |-> SinNumero,
                              total_tokens |-> SinNumero ] ]

\* Lines 310-314: the exception of one delivery is counted and the loop goes
\* on with the next token.
ExceptEnvio(n) ==
    [ n EXCEPT !.failure_count = @ + 1,
               !.errors = Append(@, n.idx),
               !.enviados = Append(@, [ token |-> n.tokens[n.idx + 1], ok |-> FALSE ]),
               !.idx = @ + 1 ]

\* Lines 294-308: messaging.send delivers to the token at idx.
MessagingSend ==
    /\ notificacion.pc = "enviando"
    /\ notificacion.idx < Len(notificacion.tokens)
    /\ notificacion' =
         [ notificacion EXCEPT
             !.success_count = @ + 1,
             !.enviados = Append(@, [ token |-> notificacion.tokens[notificacion.idx + 1],
                                      ok |-> TRUE ]),
             !.idx = @ + 1 ]
    /\ UNCHANGED << varsEncuestas, varsLectura, varsAuth, varsCalculo >>

\* messaging.send raises for the token at idx.
MessagingSendFalla ==
    /\ notificacion.pc = "enviando"
    /\ notificacion.idx < Len(notificacion.tokens)
    /\ notificacion' = ExceptEnvio(notificacion)
    /\ UNCHANGED << varsEncuestas, varsLectura, varsAuth, varsCalculo >>

\* Lines 316-331: the loop is over, the handler returns the counts.
ResponderNotificacion ==
    /\ notificacion.pc = "enviando"
    /\ notificacion.idx = Len(notificacion.tokens)
    /\ notificacion' =
         [ notificacion EXCEPT
             !.pc = "fin",
             !.response = [ success |-> TRUE, message |-> "Notificaciones enviadas",
                            sent_count |-> notificacion.success_count,
                            failed_count |-> notificacion.failure_count,
                            total_tokens |-> Len(notificacion.tokens) ] ]
    /\ UNCHANGED << varsEncuestas, varsLectura, varsAuth, varsCalculo >>

InitNotificacion ==
    /\ notificacion = SinNotificacion
    /\ EncuestasFijas
    /\ LecturaFija
    /\ AuthFija
    /\ CalculoFijo

NextNotificacion ==
    \/ \E s \in Remitentes, v \in BOOLEAN, p \in Participantes :
         SendMessageNotification(s, v, p)
    \/ \E s \in Remitentes, v \in BOOLEAN, p \in Participantes :
         SendMessageNotificationFalla(s, v, p)
    \/ MessagingSend
    \/ MessagingSendFalla
    \/ ResponderNotificacion

SpecNotificacion == InitNotificacion /\ [][NextNotificacion]_vars

\* The deliveries that failed, among those attempted.
EnviosFallidos ==
    { i \in 1..Len(notificacion.enviados) : ~notificacion.enviados[i].ok }

\* C23: a request that found tokens and has been answered was answered with
\* success after a delivery was attempted for every token, whichever of them
\* failed, and the counts it reports add up: sent_count + failed_count =
\* total_tokens, failed_count being the number of deliveries that failed.
C23_FalloNoDetieneEnvio ==
    ( notificacion.pc = "fin" /\ notificacion.tokens # << >> ) =>
      /\ notificacion.response.success
      /\ Len(notificacion.enviados) = Len(notificacion.tokens)
      /\ \A i \in 1..Len(notificacion.tokens) :
           notificacion.enviados[i].token = notificacion.tokens[i]
      /\ notificacion.response.total_tokens = Len(notificacion.tokens)
      /\ notificacion.response.failed_count = Cardinality(EnviosFallidos)
      /\ notificacion.response.sent_count + notificacion.response.failed_count
           = notificacion.response.total_tokens

\* A request answered after the delivery to its first token failed and the
\* delivery to a later token succeeded.
C23_Witness ==
    /\ notificacion.pc = "fin"
    /\ Len(notificacion.tokens) >= 2
    /\ ~notificacion.enviados[1].ok
    /\ notificacion.enviados[Len(notificacion.tokens)].ok
    /\ notificacion.response.success

\* C24: the response does not wait for the deliveries: whenever a delivery
\* to a token is still to be attempted, the request has already been answered.
C24_RespuestaSinEsperar ==
    ( notificacion.pc = "enviando"
      /\ notificacion.idx < Len(notificacion.tokens) ) =>
      notificacion.response # SinRespuesta


\* ---------------------------------------------------------------------
\* C25: the answer rows of a completada survey all come from one call, and
\* that call was made by the principal recorded in respondido_por_email (the
\* rows of the initial state are those of the principal who completed it
\* then): no row of another principal or of another call stays attached.
C25_RespuestasDelQueCompleto ==
    \A e \in DOMAIN solicitudes :
      solicitudes[e].estado = "completada" =>
        \A r \in respuestas : r.encuesta_id = e =>
          /\ \A q \in respuestas :
               q.encuesta_id = e => q.respuesta_id[1] = r.respuesta_id[1]
          /\ r.respuesta_id[1] \in Calls =>
               calls[r.respuesta_id[1]].user = solicitudes[e].respondido_por_email


\* ---------------------------------------------------------------------
\* The responses of the checks of lines 330-358.
RechazoDePrecondicion == { 404, 403, 400 }

\* C26: a step of a call that ends, or has ended, with the response of a
\* failed check (not found, forbidden, conflict, expired) writes nothing: it
\* adds no answer row and changes no field of any survey.
C26_RechazoSinEfecto ==
    [][ \A c \in Calls :
          ( calls'[c] # calls[c]
            /\ calls'[c].result.status \in RechazoDePrecondicion ) =>
          ( respuestas' = respuestas /\ solicitudes' = solicitudes ) ]_vars

\* Two calls were rejected, one as forbidden and one as expired, on surveys
\* that are still pendiente, and neither has a row stored.
C26_Witness ==
    \E c, d \in Calls :
      /\ calls[c].pc = "fin" /\ calls[c].result.status = 403
      /\ calls[d].pc = "fin" /\ calls[d].result = Expirada
      /\ solicitudes[calls[c].encuesta_id].estado = "pendiente"
      /\ solicitudes[calls[d].encuesta_id].estado = "pendiente"
      /\ RowsOf(c) = {} /\ RowsOf(d) = {}


\* ---------------------------------------------------------------------
\* The row of encuestas_solicitudes an entry of the listing was built from,
\* as the SELECT of responder_encuesta and of ver_respuestas_encuesta reads it.
FilaListada(encuesta_id) == { s \in SolicitudesListado : s.encuesta_id = encuesta_id }
\* The moment of the listing, in the unit of fecha_limite.
AhoraListado == MesAbsoluto(calculo.entrada.year, calculo.entrada.month)

\* C27: for every survey of a response of the listing, puede_responder is
\* true exactly when no check of responder_encuesta rejects a call by the same
\* principal at that moment.
C27_PuedeResponderCoincide ==
    (vista.endpoint = "encuestas/mis-encuestas" /\ vista.result.status = 200) =>
      \A e \in EncuestasDevueltas :
        e.puede_responder <=>
          Precondiciones(FilaListada(e.encuesta_id), vista.user, AhoraListado).status = 0

\* C28: for every completada survey of a response of the listing that carries
\* puede_ver_respuestas = true, ver_respuestas_encuesta does not answer 403 to
\* the same principal.
C28_PuedeVerCoincide ==
    (vista.endpoint = "encuestas/mis-encuestas" /\ vista.result.status = 200) =>
      \A e \in EncuestasDevueltas :
        ( e.estado = "completada" /\ e.puede_ver_respuestas ) =>
          PermisoRespuestas(FilaListada(e.encuesta_id), vista.user,
                            EsWfsaRespuestas(Principals[vista.user].rol_id)).status # 403


\* ---------------------------------------------------------------------
\* C29: when enviar-mensaje ends with its error response, no row of
\* mensajes_whatsapp inserted by that request is left in the table.
C29_TodoONada ==
    ( /\ request.pc = "fin"
      /\ request.endpoint = "whatsapp/enviar-mensaje"
      /\ request.result = Err(500, "Error al enviar mensajes") )
    => MensajesDe(request) = {}


\* ---------------------------------------------------------------------
\* C30: with no data-store failure and under fairness, every call that has
\* passed the checks ends with a response, and the survey it read as pendiente
\* and not expired becomes completada with the principal of one of the calls
\* on that survey recorded in respondido_por_email.
C30_TerminaYCompleta ==
    /\ \A c \in Calls :
         ( calls[c].pc \in { "leido", "insertado" } )
           ~> ( calls[c].pc = "fin" /\ calls[c].result.status # 0 )
    /\ \A e \in Existentes :
         ( \E c \in Calls : calls[c].pc = "leido" /\ calls[c].encuesta_id = e )
           ~> ( /\ solicitudes[e].estado = "completada"
                /\ \E d \in Calls :
                     /\ calls[d].encuesta_id = e
                     /\ calls[d].user = solicitudes[e].respondido_por_email )

\* Two calls on the same survey, both past the checks while it was pendiente
\* and before its fecha_limite, have both ended, and the survey is completada
\* with the principal of one of them.
C30_Witness ==
    \E c, d \in Calls :
      /\ c # d
      /\ calls[c].encuesta_id = calls[d].encuesta_id
      /\ calls[c].pc = "fin" /\ calls[c].result = Ok200
      /\ calls[d].pc = "fin" /\ calls[d].result = Ok200
      /\ calls[c].user # calls[d].user
      /\ solicitudes[calls[c].encuesta_id].estado = "completada"
      /\ solicitudes[calls[c].encuesta_id].respondido_por_email = calls[c].user

====
